---- MODULE Spec2Model ----
(***************************************************************************)
(* Model of the configuration resolution pipeline of hookdeck-deploy-cli:  *)
(* the deep-merge engine (mergeSource, mergeDestination, mergeConnection,  *)
(* mergeTransformation, mergeEnvOverride, mergeEnvMap, mergeManifests) and *)
(* the inheritance resolver (LoadFile, LoadWithInheritance), the           *)
(* environment overlay resolver (ResolveEnv and the per-resource           *)
(* resolvers), the interpolator (InterpolateEnvVars), the two of them in   *)
(* sequence as a deploy run makes them, the drift comparator (Detect), the *)
(* project registry (AddManifest, Validate) and the deploy orchestrator    *)
(* (Deploy).                                                               *)
(* Each component has its own specification; the variables of the other    *)
(* components stay at their idle values.                                   *)
(*                                                                         *)
(* Go values are modelled as follows.  A struct is a record with the Go    *)
(* field names.  A nil pointer, a nil map and a nil slice are the record   *)
(* Nil.  A non-nil map is a function from its keys; a non-nil slice is a   *)
(* record [items |-> sequence], so that an empty non-nil slice differs     *)
(* from a nil one as it does in Go.  A value of type interface{} held in a *)
(* free-form map is JStr(s) for a JSON string or JObj(m) for a nested map. *)
(***************************************************************************)
EXTENDS Integers, Sequences, FiniteSets, TLC

VARIABLES
    fn,        \* merge engine: the merge function under application
    parent,    \* merge engine: its first argument
    child,     \* merge engine: its second argument
    result,    \* merge engine: merge(parent, child)
    again,     \* merge engine: merge(result, child)
    phase,     \* merge engine: "input", "merged" or "twice"
    files,     \* file system: path -> Nil (no such file) or the parsed manifest
    pc,        \* loader: "idle", "enter" or "return"
    top,       \* loader: argument of the running top-level LoadWithInheritance
    arg,       \* loader: path argument of the loadWithInheritance frame being entered
    seen,      \* loader: the seen map (set of absolute paths mapped to true)
    stack,     \* loader: suspended frames, innermost last: [absPath, m]
    ret,       \* loader: value returned by the frame that last returned
    calls,     \* loader: number of top-level calls started
    loads,     \* loader: absolute paths handed to LoadFile by the running call, in order
    last,      \* loader: [path, out] of the top-level call that last returned, or Nil
    first,     \* loader: path -> outcome of the first finished top-level call, or Nil
    resolver,  \* overlay resolver: the resolver under application
    subject,   \* overlay resolver: the manifest or resource handed to it
    selected,  \* overlay resolver: the environment name handed to it
    resolved,  \* overlay resolver: its outcome, or Nil before the call
    environ,   \* interpolator: the process environment, name -> Set(value) or Nil
    manifest,  \* interpolator: the manifest InterpolateEnvVars is applied to
    prior,     \* interpolator: the manifest as it was before the last call
    outcome,   \* interpolator: what the last call returned (and, in after, what
               \* the call before it returned), or Nil
    runs,      \* interpolator: number of calls made
    given,     \* pipeline: the loaded manifest m as it is handed to ResolveEnv
    memory,    \* pipeline: the same manifest m as it is in memory now
    choice,    \* pipeline: the environment name of the run (flagEnv)
    procenv,   \* pipeline: the process environment
    target,    \* pipeline: the resolved manifest, or Nil
    shares,    \* pipeline: the struct target.Destination points to
    stage,     \* pipeline: "loaded", "resolved", "interpolated" or "failed"
    lookups,   \* pipeline: the names InterpolateEnvVars looked up
    undefined, \* pipeline: the names its error reports as undefined
    locals,    \* drift: the resolved local resources handed to Detect, by kind
    remotes,   \* drift: the RemoteState handed to Detect
    diffs,     \* drift: the list Detect returned
    origins,   \* drift: for each returned Diff, the kind and index of its resource
    detected,  \* drift: "no" before the call of Detect, "yes" after it,
               \* "twice" after a second call with the same inputs
    previous,  \* drift: the list the first of two calls returned
    registry,  \* registry: the Registry that AddManifest fills
    added,     \* registry: the calls of AddManifest made, each with its file
               \* path and its manifest
    errs,      \* registry: the list Validate returned
    project,   \* registry: "adding" while manifests are added, then what
               \* LoadProject returns
    raw,       \* parse: what json.Unmarshal yields for the text of the file
               \* LoadFile reads, Malformed for a text that is not JSONC, Nil
               \* for no file
    loaded,    \* parse: what LoadFile returned, Nil before the call
    input,     \* deploy: the DeployInput handed to Deploy
    opts,      \* deploy: the Options handed to Deploy
    client,    \* deploy: the Client handed to Deploy, "nil" for none
    at,        \* deploy: the loop Deploy is in and the index of its next
               \* element
    ids,       \* deploy: sourceIDs, destinationIDs and transformationIDs
    issued,    \* deploy: the calls made on the client, in order, each with its
               \* request and its outcome
    partial,   \* deploy: the Result built so far
    deployed   \* deploy: what Deploy returned, Nil before

mergeVars == <<fn, parent, child, result, again, phase>>
loadVars  == <<files, pc, top, arg, seen, stack, ret, calls, loads, last, first>>
resolveVars == <<resolver, subject, selected, resolved>>
interpolateVars == <<environ, manifest, prior, outcome, runs>>
pipelineVars == <<given, memory, choice, procenv, target, shares, stage, lookups,
                  undefined>>
driftVars == <<locals, remotes, diffs, origins, detected, previous>>
registryVars == <<registry, added, errs, project>>
parseVars == <<raw, loaded>>
deployVars == <<input, opts, client, at, ids, issued, partial, deployed>>
vars      == <<mergeVars, loadVars, resolveVars, interpolateVars, pipelineVars,
               driftVars,
               registryVars,
               parseVars,
               deployVars>>
\* the variables an action of one component leaves alone
exceptMerge   == <<loadVars, resolveVars, interpolateVars, pipelineVars, driftVars,
    registryVars,
    parseVars,
    deployVars>>
exceptLoad    == <<mergeVars, resolveVars, interpolateVars, pipelineVars, driftVars,
    registryVars,
    parseVars,
    deployVars>>
exceptResolve == <<mergeVars, loadVars, interpolateVars, pipelineVars, driftVars,
    registryVars,
    parseVars,
    deployVars>>
exceptInterpolate == <<mergeVars, loadVars, resolveVars, pipelineVars, driftVars,
    registryVars,
    parseVars,
    deployVars>>
exceptPipeline == <<mergeVars, loadVars, resolveVars, interpolateVars, driftVars,
    registryVars,
    parseVars,
    deployVars>>
exceptDrift == <<mergeVars, loadVars, resolveVars, interpolateVars, pipelineVars,
    registryVars,
    parseVars,
    deployVars>>
exceptRegistry == <<mergeVars, loadVars, resolveVars, interpolateVars, pipelineVars, driftVars,
    parseVars,
    deployVars>>
exceptParse == <<mergeVars, loadVars, resolveVars, interpolateVars, pipelineVars, driftVars, registryVars,
    deployVars>>
exceptDeploy == <<mergeVars, loadVars, resolveVars, interpolateVars, pipelineVars, driftVars, registryVars, parseVars>>

Nil == [isNil |-> TRUE]

JStr(s) == [str |-> s]
JObj(m) == [obj |-> m]

EmptyMap == [k \in {} |-> Nil]

Slice(s) == [items |-> s]

\* len() of a slice: 0 for a nil slice
len(s) == IF s = Nil THEN 0 ELSE Len(s.items)

\* keys of a map: none for a nil map
Keys(m) == IF m = Nil THEN {} ELSE DOMAIN m

\* m[k] = v on a non-nil map
Put(m, k, v) == [x \in DOMAIN m \cup {k} |-> IF x = k THEN v ELSE m[x]]

\* elements of a slice: none for a nil slice
Items(s) == IF s = Nil THEN <<>> ELSE s.items

(***************************************************************************)
(* The deep-merge engine                                                   *)
(***************************************************************************)

\* a faulty variant: the child's map replaces the parent's
mergeMapStringInterfaceReplace(p, c) ==
    IF p = Nil THEN c
    ELSE IF c = Nil THEN p
    ELSE c

mergeMapStringInterface(p, c) ==
    IF p = Nil THEN c
    ELSE IF c = Nil THEN p
    ELSE [k \in DOMAIN p \cup DOMAIN c |-> IF k \in DOMAIN c THEN c[k] ELSE p[k]]

\* a faulty variant: an absent child yields the child, not the parent
mergeSourceNilSlip(p, c) ==
    IF c = Nil THEN c
    ELSE IF p = Nil THEN c
    ELSE [Name        |-> IF c.Name # "" THEN c.Name ELSE p.Name,
          Type        |-> IF c.Type # "" THEN c.Type ELSE p.Type,
          Description |-> IF c.Description # "" THEN c.Description ELSE p.Description,
          Config      |-> IF c.Config # Nil
                          THEN mergeMapStringInterface(p.Config, c.Config)
                          ELSE p.Config]

mergeSource(p, c) ==
    IF c = Nil THEN p
    ELSE IF p = Nil THEN c
    ELSE [Name        |-> IF c.Name # "" THEN c.Name ELSE p.Name,
          Type        |-> IF c.Type # "" THEN c.Type ELSE p.Type,
          Description |-> IF c.Description # "" THEN c.Description ELSE p.Description,
          Config      |-> IF c.Config # Nil
                          THEN mergeMapStringInterface(p.Config, c.Config)
                          ELSE p.Config]

\* a faulty variant: the child's rate limit is taken even when it is zero
mergeDestinationZeroRate(p, c) ==
    IF c = Nil THEN p
    ELSE IF p = Nil THEN c
    ELSE [Name            |-> IF c.Name # "" THEN c.Name ELSE p.Name,
          URL             |-> IF c.URL # "" THEN c.URL ELSE p.URL,
          Type            |-> IF c.Type # "" THEN c.Type ELSE p.Type,
          Description     |-> IF c.Description # "" THEN c.Description ELSE p.Description,
          AuthType        |-> IF c.AuthType # "" THEN c.AuthType ELSE p.AuthType,
          Auth            |-> IF c.Auth # Nil
                              THEN mergeMapStringInterface(p.Auth, c.Auth)
                              ELSE p.Auth,
          Config          |-> IF c.Config # Nil
                              THEN mergeMapStringInterface(p.Config, c.Config)
                              ELSE p.Config,
          RateLimit       |-> c.RateLimit,
          RateLimitPeriod |-> IF c.RateLimitPeriod # ""
                              THEN c.RateLimitPeriod ELSE p.RateLimitPeriod]

\* result.Auth is parent.Auth when the auth maps are merged (line 96, 118)
mergeDestination(p, c) ==
    IF c = Nil THEN p
    ELSE IF p = Nil THEN c
    ELSE [Name            |-> IF c.Name # "" THEN c.Name ELSE p.Name,
          URL             |-> IF c.URL # "" THEN c.URL ELSE p.URL,
          Type            |-> IF c.Type # "" THEN c.Type ELSE p.Type,
          Description     |-> IF c.Description # "" THEN c.Description ELSE p.Description,
          AuthType        |-> IF c.AuthType # "" THEN c.AuthType ELSE p.AuthType,
          Auth            |-> IF c.Auth # Nil
                              THEN mergeMapStringInterface(p.Auth, c.Auth)
                              ELSE p.Auth,
          Config          |-> IF c.Config # Nil
                              THEN mergeMapStringInterface(p.Config, c.Config)
                              ELSE p.Config,
          RateLimit       |-> IF c.RateLimit # 0 THEN c.RateLimit ELSE p.RateLimit,
          RateLimitPeriod |-> IF c.RateLimitPeriod # ""
                              THEN c.RateLimitPeriod ELSE p.RateLimitPeriod]

\* a faulty variant: the child's rules are appended to the parent's
mergeConnectionAppend(p, c) ==
    IF c = Nil THEN p
    ELSE IF p = Nil THEN c
    ELSE [Name            |-> IF c.Name # "" THEN c.Name ELSE p.Name,
          Source          |-> IF c.Source # "" THEN c.Source ELSE p.Source,
          Destination     |-> IF c.Destination # "" THEN c.Destination ELSE p.Destination,
          Rules           |-> IF c.Rules # Nil
                              THEN (IF p.Rules # Nil
                                    THEN Slice(p.Rules.items \o c.Rules.items)
                                    ELSE c.Rules)
                              ELSE p.Rules,
          Filter          |-> IF c.Filter # Nil THEN c.Filter ELSE p.Filter,
          Transformations |-> IF len(c.Transformations) > 0
                              THEN c.Transformations ELSE p.Transformations]

mergeConnection(p, c) ==
    IF c = Nil THEN p
    ELSE IF p = Nil THEN c
    ELSE [Name            |-> IF c.Name # "" THEN c.Name ELSE p.Name,
          Source          |-> IF c.Source # "" THEN c.Source ELSE p.Source,
          Destination     |-> IF c.Destination # "" THEN c.Destination ELSE p.Destination,
          Rules           |-> IF c.Rules # Nil THEN c.Rules ELSE p.Rules,
          Filter          |-> IF c.Filter # Nil THEN c.Filter ELSE p.Filter,
          Transformations |-> IF len(c.Transformations) > 0
                              THEN c.Transformations ELSE p.Transformations]

\* a faulty variant: the child's env map replaces the parent's
mergeTransformationReplaceEnv(p, c) ==
    IF c = Nil THEN p
    ELSE IF p = Nil THEN c
    ELSE [Name        |-> IF c.Name # "" THEN c.Name ELSE p.Name,
          Description |-> IF c.Description # "" THEN c.Description ELSE p.Description,
          CodeFile    |-> IF c.CodeFile # "" THEN c.CodeFile ELSE p.CodeFile,
          Env         |-> IF c.Env # Nil THEN c.Env ELSE p.Env,
          EnvVars     |-> Nil]

\* the result is built without EnvVars (lines 184-189): it is nil in the result
mergeTransformation(p, c) ==
    IF c = Nil THEN p
    ELSE IF p = Nil THEN c
    ELSE [Name        |-> IF c.Name # "" THEN c.Name ELSE p.Name,
          Description |-> IF c.Description # "" THEN c.Description ELSE p.Description,
          CodeFile    |-> IF c.CodeFile # "" THEN c.CodeFile ELSE p.CodeFile,
          Env         |-> IF c.Env # Nil
                          THEN [k \in Keys(p.Env) \cup DOMAIN c.Env |->
                                   IF k \in DOMAIN c.Env THEN c.Env[k] ELSE p.Env[k]]
                          ELSE p.Env,
          EnvVars     |-> Nil]

mergeEnvOverride(p, c) ==
    IF c = Nil THEN p
    ELSE IF p = Nil THEN c
    ELSE [Profile        |-> IF c.Profile # "" THEN c.Profile ELSE p.Profile,
          Source         |-> mergeSource(p.Source, c.Source),
          Destination    |-> mergeDestination(p.Destination, c.Destination),
          Connection     |-> mergeConnection(p.Connection, c.Connection),
          Transformation |-> mergeTransformation(p.Transformation, c.Transformation)]

mergeEnvMap(p, c) ==
    IF c = Nil THEN p
    ELSE IF p = Nil THEN c
    ELSE [k \in DOMAIN p \cup DOMAIN c |->
             IF k \in DOMAIN c
             THEN (IF k \in DOMAIN p THEN mergeEnvOverride(p[k], c[k]) ELSE c[k])
             ELSE p[k]]

\* a faulty variant: the merged manifest keeps the child's extends reference
mergeManifestsKeepExtends(p, c) ==
    IF p = Nil THEN c
    ELSE IF c = Nil THEN p
    ELSE [Schema         |-> IF c.Schema # "" THEN c.Schema ELSE p.Schema,
          Version        |-> IF c.Version # "" THEN c.Version ELSE p.Version,
          Extends        |-> c.Extends,
          Profile        |-> IF c.Profile # "" THEN c.Profile ELSE p.Profile,
          Source         |-> mergeSource(p.Source, c.Source),
          Destination    |-> mergeDestination(p.Destination, c.Destination),
          Connection     |-> mergeConnection(p.Connection, c.Connection),
          Transformation |-> mergeTransformation(p.Transformation, c.Transformation),
          Env            |-> mergeEnvMap(p.Env, c.Env)]

mergeManifests(p, c) ==
    IF p = Nil THEN c
    ELSE IF c = Nil THEN p
    ELSE [Schema         |-> IF c.Schema # "" THEN c.Schema ELSE p.Schema,
          Version        |-> IF c.Version # "" THEN c.Version ELSE p.Version,
          Extends        |-> "",
          Profile        |-> IF c.Profile # "" THEN c.Profile ELSE p.Profile,
          Source         |-> mergeSource(p.Source, c.Source),
          Destination    |-> mergeDestination(p.Destination, c.Destination),
          Connection     |-> mergeConnection(p.Connection, c.Connection),
          Transformation |-> mergeTransformation(p.Transformation, c.Transformation),
          Env            |-> mergeEnvMap(p.Env, c.Env)]

(***************************************************************************)
(* Bounded inputs of the merge engine                                      *)
(***************************************************************************)

\* longest rules list and longest transformations list of an input connection
MaxList == 2

Str == {"", "a", "b"}

\* another string for every string, so that two fields of one input differ
Rot(s) == IF s = "" THEN "a" ELSE IF s = "a" THEN "b" ELSE ""

RateLimits == {0, 100, 200}

Map1(k, v) == [x \in {k} |-> v]
Map2(k1, v1, k2, v2) == [x \in {k1, k2} |-> IF x = k1 THEN v1 ELSE v2]

\* map[string]interface{} values: nil, empty, overlapping keys, nested maps
MapSamples ==
    { Nil,
      EmptyMap,
      Map2("a", JStr("1"), "b", JStr("2")),
      Map2("b", JStr("3"), "c", JStr("4")),
      Map1("a", JObj(Map1("n", JStr("1")))),
      Map2("a", JObj(Map1("m", JStr("2"))), "c", JStr("4")) }

\* map[string]string values of a transformation's env
EnvSamples ==
    { Nil,
      [k \in {} |-> ""],
      Map1("API", "x"),
      Map2("API", "y", "KEY", "z"),
      Map1("KEY", "x") }

\* the deprecated env_vars of a loaded transformation: LoadFile has folded it into
\* env and cleared it
EnvVarsSamples == { Nil }

RuleSamples == { Map2("type", JStr("retry"), "count", JStr("3")),
                 Map2("type", JStr("filter"), "body", JStr("value")) }

SeqsUpTo(S, n) == UNION { [1..k -> S] : k \in 0..n }

\* []map[string]interface{} values: nil, empty but present, and non-empty
RuleLists == {Nil} \cup { Slice(s) : s \in SeqsUpTo(RuleSamples, MaxList) }

\* []string values
NameLists == {Nil} \cup { Slice(s) : s \in SeqsUpTo({"t1", "t2"}, MaxList) }

FilterSamples ==
    { Nil,
      EmptyMap,
      Map1("type", JStr("order")),
      Map2("type", JStr("product"), "status", JStr("active")) }

SourceConfigs ==
    [Name : Str, Type : Str, Description : Str, Config : MapSamples]

\* an input destination varies its scalar fields or its two maps
DestinationConfigs ==
    { [Name |-> s, URL |-> t, Type |-> u, Description |-> Rot(s), AuthType |-> Rot(t),
       Auth |-> Nil, Config |-> Nil, RateLimit |-> n, RateLimitPeriod |-> Rot(u)] :
         s \in Str, t \in Str, u \in Str, n \in RateLimits }
    \cup
    { [Name |-> "dest", URL |-> "", Type |-> "", Description |-> "",
       AuthType |-> "BASIC_AUTH", Auth |-> a, Config |-> c, RateLimit |-> 0,
       RateLimitPeriod |-> ""] : a \in MapSamples, c \in MapSamples }

\* an input connection varies its scalar fields, its rules and filter, or its
\* transformations
ConnectionConfigs ==
    { [Name |-> s, Source |-> t, Destination |-> u,
       Rules |-> Nil, Filter |-> Nil, Transformations |-> Nil] :
         s \in Str, t \in Str, u \in Str }
    \cup
    { [Name |-> "conn", Source |-> "", Destination |-> "",
       Rules |-> r, Filter |-> f, Transformations |-> Nil] :
         r \in RuleLists, f \in FilterSamples }
    \cup
    { [Name |-> "conn", Source |-> "", Destination |-> "",
       Rules |-> Nil, Filter |-> Nil, Transformations |-> t] :
         t \in NameLists }

\* an input transformation varies its scalar fields or its maps
TransformationConfigs ==
    { [Name |-> s, Description |-> t, CodeFile |-> u, Env |-> Nil, EnvVars |-> Nil] :
         s \in Str, t \in Str, u \in Str }
    \cup
    { [Name |-> "tr", Description |-> "", CodeFile |-> "", Env |-> e, EnvVars |-> v] :
         e \in EnvSamples, v \in EnvVarsSamples }

\* the resources an input env override or manifest is built from
SourceSamples ==
    { Nil,
      [Name |-> "src", Type |-> "", Description |-> "a",
       Config |-> Map2("a", JStr("1"), "b", JStr("2"))],
      [Name |-> "", Type |-> "b", Description |-> "", Config |-> Nil] }

DestinationSamples ==
    { Nil,
      [Name |-> "dest", URL |-> "a", Type |-> "", Description |-> "",
       AuthType |-> "BASIC_AUTH", Auth |-> Map2("a", JStr("1"), "b", JStr("2")),
       Config |-> Nil, RateLimit |-> 100, RateLimitPeriod |-> "a"],
      [Name |-> "", URL |-> "b", Type |-> "", Description |-> "", AuthType |-> "",
       Auth |-> Map2("b", JStr("3"), "c", JStr("4")), Config |-> EmptyMap,
       RateLimit |-> 0, RateLimitPeriod |-> ""] }

ConnectionSamples ==
    { Nil,
      [Name |-> "conn", Source |-> "src", Destination |-> "dest",
       Rules |-> Slice(<<Map2("type", JStr("retry"), "count", JStr("3"))>>),
       Filter |-> Map1("type", JStr("order")), Transformations |-> Slice(<<"t1">>)],
      [Name |-> "", Source |-> "", Destination |-> "b",
       Rules |-> Slice(<<>>), Filter |-> Nil, Transformations |-> Slice(<<>>)] }

TransformationSamples ==
    { Nil,
      [Name |-> "tr", Description |-> "", CodeFile |-> "a",
       Env |-> Map1("API", "x"), EnvVars |-> Nil],
      [Name |-> "", Description |-> "b", CodeFile |-> "",
       Env |-> Map2("API", "y", "KEY", "z"), EnvVars |-> Nil] }

EnvOverrides ==
    [Profile : Str, Source : SourceSamples, Destination : DestinationSamples,
     Connection : {Nil}, Transformation : {Nil}]
    \cup
    [Profile : {""}, Source : {Nil}, Destination : {Nil},
     Connection : ConnectionSamples, Transformation : TransformationSamples]

\* the entries of an input env map: a null entry and two overrides
EnvOverrideSamples ==
    { Nil,
      [Profile |-> "staging", Source |-> Nil,
       Destination |-> [Name |-> "", URL |-> "b", Type |-> "", Description |-> "",
                        AuthType |-> "", Auth |-> Map1("b", JStr("3")), Config |-> Nil,
                        RateLimit |-> 0, RateLimitPeriod |-> ""],
       Connection |-> Nil, Transformation |-> Nil],
      [Profile |-> "", Source |-> [Name |-> "", Type |-> "b", Description |-> "",
                                   Config |-> Nil],
       Destination |-> [Name |-> "", URL |-> "", Type |-> "", Description |-> "",
                        AuthType |-> "", Auth |-> Map1("a", JStr("9")), Config |-> Nil,
                        RateLimit |-> 200, RateLimitPeriod |-> ""],
       Connection |-> Nil,
       Transformation |-> [Name |-> "", Description |-> "", CodeFile |-> "",
                           Env |-> Map1("KEY", "x"), EnvVars |-> Nil]] }

EnvNames == {"staging", "production"}

\* map[string]*EnvOverride values: nil, or entries for some of the names
EnvMaps ==
    {Nil} \cup UNION { [D -> EnvOverrideSamples] : D \in SUBSET EnvNames }

EnvMapSamples ==
    { Nil,
      Map1("staging", CHOOSE o \in EnvOverrideSamples : o # Nil /\ o.Profile = "staging"),
      Map2("staging", CHOOSE o \in EnvOverrideSamples : o # Nil /\ o.Profile = "",
           "production", Nil) }

\* an input manifest varies its scalar fields or its resources and env map
Manifests ==
    [Schema : Str, Version : Str, Extends : {"", "base.jsonc"}, Profile : Str,
     Source : {Nil}, Destination : {Nil}, Connection : {Nil}, Transformation : {Nil},
     Env : {Nil}]
    \cup
    [Schema : {""}, Version : {"1"}, Extends : {"", "base.jsonc"}, Profile : {""},
     Source : SourceSamples, Destination : {Nil} , Connection : ConnectionSamples,
     Transformation : TransformationSamples, Env : EnvMapSamples]

MergeFunctions ==
    {"mergeSource", "mergeDestination", "mergeConnection", "mergeTransformation",
     "mergeEnvOverride", "mergeEnvMap", "mergeManifests"}

\* the values a merge function is applied to, the absent value included
Inputs(f) ==
    {Nil} \cup
    CASE f = "mergeSource"         -> SourceConfigs
      [] f = "mergeDestination"    -> DestinationConfigs
      [] f = "mergeConnection"     -> ConnectionConfigs
      [] f = "mergeTransformation" -> TransformationConfigs
      [] f = "mergeEnvOverride"    -> EnvOverrides
      [] f = "mergeEnvMap"         -> EnvMaps
      [] f = "mergeManifests"      -> Manifests

Merge(f, p, c) ==
    CASE f = "mergeSource"         -> mergeSource(p, c)
      [] f = "mergeDestination"    -> mergeDestination(p, c)
      [] f = "mergeConnection"     -> mergeConnection(p, c)
      [] f = "mergeTransformation" -> mergeTransformation(p, c)
      [] f = "mergeEnvOverride"    -> mergeEnvOverride(p, c)
      [] f = "mergeEnvMap"         -> mergeEnvMap(p, c)
      [] f = "mergeManifests"      -> mergeManifests(p, c)

(***************************************************************************)
(* The merge engine applied to bounded inputs: a merge function is applied *)
(* to a pair of inputs, and then once more to its result and the same      *)
(* child.                                                                  *)
(***************************************************************************)

ResolveOff ==
    resolver = "" /\ subject = Nil /\ selected = "" /\ resolved = Nil

InterpolateOff ==
    environ = Nil /\ manifest = Nil /\ prior = Nil /\ outcome = Nil /\ runs = 0

PipelineOff ==
    /\ given = Nil /\ memory = Nil /\ choice = "" /\ procenv = Nil /\ target = Nil
    /\ shares = "" /\ stage = "off" /\ lookups = {} /\ undefined = <<>>

DriftOff ==
    /\ locals = Nil /\ remotes = Nil /\ diffs = <<>> /\ origins = <<>>
    /\ detected = "off" /\ previous = <<>>

RegistryOff ==
    /\ registry = Nil /\ added = <<>> /\ errs = <<>> /\ project = "off"

ParseOff ==
    raw = Nil /\ loaded = Nil

DeployOff ==
    /\ input = Nil /\ opts = Nil /\ client = "" /\ at = Nil /\ ids = Nil /\ issued = <<>> /\ partial = Nil /\ deployed = Nil

LoaderOff ==
    /\ files = Nil /\ pc = "off" /\ top = "" /\ arg = "" /\ seen = {}
    /\ stack = <<>> /\ ret = Nil /\ calls = 0 /\ loads = <<>> /\ last = Nil
    /\ first = Nil

InitMerge ==
    /\ fn \in MergeFunctions
    /\ parent \in Inputs(fn)
    /\ child \in Inputs(fn)
    /\ result = Nil
    /\ again = Nil
    /\ phase = "input"
    /\ LoaderOff
    /\ ResolveOff
    /\ InterpolateOff
    /\ PipelineOff
    /\ DriftOff
    /\ RegistryOff
    /\ ParseOff
    /\ DeployOff

\* result := fn(parent, child)
Apply ==
    /\ phase = "input"
    /\ result' = Merge(fn, parent, child)
    /\ phase' = "merged"
    /\ UNCHANGED <<fn, parent, child, again>>
    /\ UNCHANGED exceptMerge

\* again := fn(result, child)
ApplyAgain ==
    /\ phase = "merged"
    /\ again' = Merge(fn, result, child)
    /\ phase' = "twice"
    /\ UNCHANGED <<fn, parent, child, result>>
    /\ UNCHANGED exceptMerge

NextMerge == Apply \/ ApplyAgain

SpecMerge == InitMerge /\ [][NextMerge]_vars

BothPresent == phase # "input" /\ parent # Nil /\ child # Nil

ScalarFields(f) ==
    CASE f = "mergeSource"         -> {"Name", "Type", "Description"}
      [] f = "mergeDestination"    -> {"Name", "URL", "Type", "Description", "AuthType",
                                       "RateLimit", "RateLimitPeriod"}
      [] f = "mergeConnection"     -> {"Name", "Source", "Destination"}
      [] f = "mergeTransformation" -> {"Name", "Description", "CodeFile"}
      [] f = "mergeEnvOverride"    -> {"Profile"}
      [] f = "mergeEnvMap"         -> {}
      [] f = "mergeManifests"      -> {"Schema", "Version", "Profile"}

IsZero(field, v) == IF field = "RateLimit" THEN v = 0 ELSE v = ""

\* C1: for every scalar field of a merged record with both parent and child
\* present, the result holds the child's value if it is non-empty/non-zero and
\* the parent's value otherwise.
ScalarChildWinsIfNonZero ==
    BothPresent =>
        \A f \in ScalarFields(fn) :
            result[f] = IF IsZero(f, child[f]) THEN parent[f] ELSE child[f]

ScalarChildWinsIfNonZeroWitness ==
    /\ phase = "merged" /\ fn = "mergeDestination"
    /\ parent # Nil /\ child # Nil
    /\ parent.RateLimit = 100 /\ child.RateLimit = 0 /\ result.RateLimit = 100
    /\ parent.URL = "a" /\ child.URL = "b" /\ result.URL = "b"

MapFields(f) ==
    CASE f = "mergeSource"      -> {"Config"}
      [] f = "mergeDestination" -> {"Config", "Auth"}
      [] OTHER                  -> {}

\* C2: the merged config map of a source and the merged config and auth maps of
\* a destination have the union of the parent's and the child's keys; a key of
\* the child holds the child's value (a nested map taken whole), every other key
\* the parent's value.
ShallowMapMerge ==
    BothPresent =>
        \A f \in MapFields(fn) :
            /\ Keys(result[f]) = Keys(parent[f]) \cup Keys(child[f])
            /\ \A k \in Keys(child[f]) : result[f][k] = child[f][k]
            /\ \A k \in Keys(parent[f]) \ Keys(child[f]) : result[f][k] = parent[f][k]

ShallowMapMergeWitness ==
    /\ phase = "merged" /\ fn = "mergeDestination"
    /\ parent # Nil /\ child # Nil
    /\ parent.Auth = Map2("a", JStr("1"), "b", JStr("2"))
    /\ child.Auth = Map2("a", JObj(Map1("m", JStr("2"))), "c", JStr("4"))
    /\ DOMAIN result.Auth = {"a", "b", "c"}
    /\ result.Auth["a"] = JObj(Map1("m", JStr("2")))
    /\ result.Auth["b"] = JStr("2")

\* C3: in mergeConnection, a non-empty rules list, filter map or transformations
\* list of the child that differs from the parent's non-empty one is the
\* result's, exactly: nothing of the parent's is carried over.
ConnectionReplaceNotMerge ==
    (BothPresent /\ fn = "mergeConnection") =>
        /\ (len(parent.Rules) > 0 /\ len(child.Rules) > 0 /\ child.Rules # parent.Rules)
               => result.Rules = child.Rules
        /\ (Keys(parent.Filter) # {} /\ Keys(child.Filter) # {}
            /\ child.Filter # parent.Filter)
               => result.Filter = child.Filter
        /\ (len(parent.Transformations) > 0 /\ len(child.Transformations) > 0
            /\ child.Transformations # parent.Transformations)
               => result.Transformations = child.Transformations

ConnectionReplaceNotMergeWitness ==
    /\ phase = "merged" /\ fn = "mergeConnection"
    /\ parent # Nil /\ child # Nil
    /\ len(parent.Rules) = 1 /\ len(child.Rules) = 1 /\ parent.Rules # child.Rules
    /\ parent.Filter = Map1("type", JStr("order"))
    /\ child.Filter = Map2("type", JStr("product"), "status", JStr("active"))
    /\ result.Rules = child.Rules /\ result.Filter = child.Filter

\* C4: in mergeConnection with both present, an empty rules list of the child
\* (absent, or present with zero elements) keeps the parent's rules list, and an
\* empty transformations list of the child keeps the parent's transformations.
ConnectionEmptyListKeepsParent ==
    (BothPresent /\ fn = "mergeConnection") =>
        /\ len(child.Rules) = 0 => Items(result.Rules) = Items(parent.Rules)
        /\ len(child.Transformations) = 0
               => Items(result.Transformations) = Items(parent.Transformations)

\* C5: in mergeTransformation with both present, the result's env map has the
\* union of the keys, the child's value for the child's keys and the parent's
\* value for the others.
TransformationEnvAccumulates ==
    (BothPresent /\ fn = "mergeTransformation") =>
        /\ Keys(result.Env) = Keys(parent.Env) \cup Keys(child.Env)
        /\ \A k \in Keys(child.Env) : result.Env[k] = child.Env[k]
        /\ \A k \in Keys(parent.Env) \ Keys(child.Env) : result.Env[k] = parent.Env[k]

TransformationEnvAccumulatesWitness ==
    /\ phase = "merged" /\ fn = "mergeTransformation"
    /\ parent # Nil /\ child # Nil
    /\ parent.Env = Map2("API", "y", "KEY", "z")
    /\ child.Env = Map1("KEY", "x")
    /\ result.Env = Map2("API", "y", "KEY", "x")

MergeIdempotent ==
    phase = "twice" => again = result

(***************************************************************************)
(* The inheritance resolver                                                *)
(***************************************************************************)

\* most top-level LoadWithInheritance calls in one behaviour
MaxCalls == 3

\* the directory the process runs in and the manifests live in
Cwd == "/p"

AbsPaths == {"/p/a.jsonc", "/p/b.jsonc", "/p/c.jsonc", "/p/missing.jsonc"}

\* the paths LoadWithInheritance is called with: relative and absolute spellings
CallArgs == {"a.jsonc", "/p/b.jsonc", "./c.jsonc"}

\* the extends references a manifest file may hold
Refs == {"", "a.jsonc", "./b.jsonc", "c.jsonc", "missing.jsonc"}

\* filepath.Join(dir, ref) for dir = Cwd: joins and cleans
Join(dir, ref) ==
    CASE ref \in {"a.jsonc", "./a.jsonc"}             -> "/p/a.jsonc"
      [] ref \in {"b.jsonc", "./b.jsonc"}             -> "/p/b.jsonc"
      [] ref \in {"c.jsonc", "./c.jsonc"}             -> "/p/c.jsonc"
      [] ref \in {"missing.jsonc", "./missing.jsonc"} -> "/p/missing.jsonc"

\* filepath.Abs(path): an absolute path is itself, a relative one is joined to Cwd
Abs(path) == IF path \in AbsPaths THEN path ELSE Join(Cwd, path)

\* filepath.Dir(absPath): every manifest of the model lives in Cwd
Dir(absPath) == Cwd

ZeroManifest ==
    [Schema |-> "", Version |-> "", Extends |-> "", Profile |-> "",
     Source |-> Nil, Destination |-> Nil, Connection |-> Nil, Transformation |-> Nil,
     Env |-> Nil]

ZeroEnvOverride ==
    [Profile |-> "", Source |-> Nil, Destination |-> Nil, Connection |-> Nil,
     Transformation |-> Nil]

ZeroSource == [Name |-> "", Type |-> "", Description |-> "", Config |-> Nil]

ZeroDestination ==
    [Name |-> "", URL |-> "", Type |-> "", Description |-> "", AuthType |-> "",
     Auth |-> Nil, Config |-> Nil, RateLimit |-> 0, RateLimitPeriod |-> ""]

ZeroConnection ==
    [Name |-> "", Source |-> "", Destination |-> "", Rules |-> Nil, Filter |-> Nil,
     Transformations |-> Nil]

ZeroTransformation ==
    [Name |-> "", Description |-> "", CodeFile |-> "", Env |-> Nil, EnvVars |-> Nil]

\* what json.Unmarshal yields for the text of each manifest file, its extends
\* reference apart
Content(absPath) ==
    CASE absPath = "/p/a.jsonc" ->
           [ZeroManifest EXCEPT
              !.Profile = "default",
              !.Source = [ZeroSource EXCEPT !.Name = "src",
                            !.Config = Map2("a", JStr("1"), "b", JStr("2"))],
              !.Transformation = [ZeroTransformation EXCEPT !.Name = "tr",
                            !.Env = Map1("API", "x"),
                            !.EnvVars = Map2("API", "old", "KEY", "z")],
              !.Env = Map1("staging", [ZeroEnvOverride EXCEPT !.Profile = "staging",
                            !.Destination = [ZeroDestination EXCEPT !.URL = "b"]])]
      [] absPath = "/p/b.jsonc" ->
           [ZeroManifest EXCEPT
              !.Version = "1",
              !.Destination = [ZeroDestination EXCEPT !.Name = "dest", !.URL = "a",
                            !.AuthType = "BASIC_AUTH",
                            !.Auth = Map2("username", JStr("admin"),
                                          "password", JStr("secret"))],
              !.Connection = [ZeroConnection EXCEPT !.Name = "conn", !.Source = "src",
                            !.Destination = "dest",
                            !.Rules = Slice(<<Map2("type", JStr("retry"),
                                                   "count", JStr("3"))>>)],
              !.Env = Map2("staging", [ZeroEnvOverride EXCEPT
                                         !.Transformation = [ZeroTransformation EXCEPT
                                              !.EnvVars = Map1("OLD", "x")]],
                           "production", Nil)]
      [] absPath = "/p/c.jsonc" ->
           [ZeroManifest EXCEPT
              !.Schema = "s",
              !.Profile = "custom",
              !.Source = [ZeroSource EXCEPT !.Type = "b",
                            !.Config = Map1("b", JStr("3"))],
              !.Connection = [ZeroConnection EXCEPT !.Rules = Slice(<<>>),
                            !.Transformations = Slice(<<"t1">>)]]

\* a file whose text is not JSONC
Malformed == [malformed |-> TRUE]

\* the states of one manifest file: absent, malformed, or parsing to its content
\* with some extends reference
FileStates(absPath) ==
    {Nil, Malformed} \cup { [Content(absPath) EXCEPT !.Extends = e] : e \in Refs }

FileSystems ==
    { f \in [AbsPaths -> {Nil, Malformed} \cup
                         UNION { FileStates(q) : q \in AbsPaths \ {"/p/missing.jsonc"} }] :
        /\ f["/p/missing.jsonc"] = Nil
        /\ \A q \in AbsPaths \ {"/p/missing.jsonc"} : f[q] \in FileStates(q) }

\* the value and error a function returns
Ok(m) == [err |-> "", path |-> "", via |-> <<>>, m |-> m]
Err(kind, path) == [err |-> kind, path |-> path, via |-> <<>>, m |-> Nil]

\* fmt.Errorf("loading parent %s: %w", m.Extends, err)
Wrap(extends, e) == [e EXCEPT !.via = <<extends>> \o @]

\* a faulty variant: a key of both maps takes the value of env_vars
mergeTransformationEnvVarsAliasWins(t) ==
    IF t = Nil \/ Keys(t.EnvVars) = {} THEN t
    ELSE [t EXCEPT
            !.Env = [k \in Keys(t.Env) \cup DOMAIN t.EnvVars |->
                        IF k \in DOMAIN t.EnvVars THEN t.EnvVars[k] ELSE t.Env[k]],
            !.EnvVars = Nil]

mergeTransformationEnvVars(t) ==
    IF t = Nil \/ Keys(t.EnvVars) = {} THEN t
    ELSE [t EXCEPT
            !.Env = [k \in Keys(t.Env) \cup DOMAIN t.EnvVars |->
                        IF k \in Keys(t.Env) THEN t.Env[k] ELSE t.EnvVars[k]],
            !.EnvVars = Nil]

\* the backward-compatibility step of LoadFile on the env map
foldEnvOverrides(env) ==
    IF env = Nil THEN Nil
    ELSE [k \in DOMAIN env |->
            IF env[k] # Nil
            THEN [env[k] EXCEPT !.Transformation = mergeTransformationEnvVars(@)]
            ELSE env[k]]

\* LoadFile(path) on the file system fs
LoadFile(fs, path) ==
    LET data == fs[Abs(path)] IN
    IF data = Nil THEN Err("reading manifest", Abs(path))
    ELSE IF data = Malformed THEN Err("parsing JSONC", Abs(path))
    ELSE Ok([data EXCEPT !.Transformation = mergeTransformationEnvVars(@),
                         !.Env = foldEnvOverrides(@)])

MergeOff ==
    /\ fn = "" /\ parent = Nil /\ child = Nil /\ result = Nil /\ again = Nil
    /\ phase = "off"

Init ==
    /\ files \in FileSystems
    /\ pc = "idle"
    /\ top = ""
    /\ arg = ""
    /\ seen = {}
    /\ stack = <<>>
    /\ ret = Nil
    /\ calls = 0
    /\ loads = <<>>
    /\ last = Nil
    /\ first = [p \in CallArgs |-> Nil]
    /\ MergeOff
    /\ ResolveOff
    /\ InterpolateOff
    /\ PipelineOff
    /\ DriftOff
    /\ RegistryOff
    /\ ParseOff
    /\ DeployOff

\* a faulty variant: the seen map outlives the top-level call
LoadWithInheritanceSharedSeen(path) ==
    /\ pc = "idle"
    /\ calls < MaxCalls
    /\ calls' = calls + 1
    /\ top' = path
    /\ arg' = path
    /\ stack' = <<>>
    /\ loads' = <<>>
    /\ pc' = "enter"
    /\ UNCHANGED <<files, seen, ret, last, first>>
    /\ UNCHANGED exceptLoad

\* LoadWithInheritance(path): calls loadWithInheritance with a new seen map
LoadWithInheritance(path) ==
    /\ pc = "idle"
    /\ calls < MaxCalls
    /\ calls' = calls + 1
    /\ top' = path
    /\ arg' = path
    /\ seen' = {}
    /\ stack' = <<>>
    /\ loads' = <<>>
    /\ pc' = "enter"
    /\ UNCHANGED <<files, ret, last, first>>
    /\ UNCHANGED exceptLoad

\* a faulty variant: the seen map is keyed by the path as given, not by its
\* absolute form
EnterRawKey ==
    /\ pc = "enter"
    /\ LET absPath == Abs(arg)
           r == LoadFile(files, arg)
       IN  IF arg \in seen
           THEN /\ ret' = Err("circular extends detected", absPath)
                /\ pc' = "return"
                /\ UNCHANGED <<seen, loads, stack, arg>>
           ELSE /\ seen' = seen \cup {arg}
                /\ loads' = Append(loads, absPath)
                /\ IF r.err # ""
                   THEN ret' = r /\ pc' = "return" /\ UNCHANGED <<stack, arg>>
                   ELSE IF r.m.Extends = ""
                   THEN ret' = r /\ pc' = "return" /\ UNCHANGED <<stack, arg>>
                   ELSE /\ stack' = Append(stack, [absPath |-> absPath, m |-> r.m])
                        /\ arg' = Join(Dir(absPath), r.m.Extends)
                        /\ pc' = "enter"
                        /\ UNCHANGED ret
    /\ UNCHANGED <<files, top, calls, last, first>>
    /\ UNCHANGED exceptLoad

\* a faulty variant: the file is read before the seen map is consulted
EnterChecksAfterLoad ==
    /\ pc = "enter"
    /\ LET absPath == Abs(arg)
           r == LoadFile(files, arg)
       IN  /\ loads' = Append(loads, absPath)
           /\ IF absPath \in seen
              THEN /\ ret' = Err("circular extends detected", absPath)
                   /\ pc' = "return"
                   /\ UNCHANGED <<seen, stack, arg>>
              ELSE /\ seen' = seen \cup {absPath}
                   /\ IF r.err # ""
                      THEN ret' = r /\ pc' = "return" /\ UNCHANGED <<stack, arg>>
                      ELSE IF r.m.Extends = ""
                      THEN ret' = r /\ pc' = "return" /\ UNCHANGED <<stack, arg>>
                      ELSE /\ stack' = Append(stack, [absPath |-> absPath, m |-> r.m])
                           /\ arg' = Join(Dir(absPath), r.m.Extends)
                           /\ pc' = "enter"
                           /\ UNCHANGED ret
    /\ UNCHANGED <<files, top, calls, last, first>>
    /\ UNCHANGED exceptLoad

\* loadWithInheritance(arg, seen) from its entry to its first return or to its
\* recursive call (lines 75-94)
Enter ==
    /\ pc = "enter"
    /\ LET absPath == Abs(arg)
           r == LoadFile(files, arg)
       IN  IF absPath \in seen
           THEN /\ ret' = Err("circular extends detected", absPath)
                /\ pc' = "return"
                /\ UNCHANGED <<seen, loads, stack, arg>>
           ELSE /\ seen' = seen \cup {absPath}
                /\ loads' = Append(loads, absPath)
                /\ IF r.err # ""
                   THEN ret' = r /\ pc' = "return" /\ UNCHANGED <<stack, arg>>
                   ELSE IF r.m.Extends = ""
                   THEN ret' = r /\ pc' = "return" /\ UNCHANGED <<stack, arg>>
                   ELSE /\ stack' = Append(stack, [absPath |-> absPath, m |-> r.m])
                        /\ arg' = Join(Dir(absPath), r.m.Extends)
                        /\ pc' = "enter"
                        /\ UNCHANGED ret
    /\ UNCHANGED <<files, top, calls, last, first>>
    /\ UNCHANGED exceptLoad

\* the recursive call returns into the innermost suspended frame, which wraps the
\* error or merges the parent with its own manifest and returns (lines 94-99)
Return ==
    /\ pc = "return"
    /\ stack # <<>>
    /\ LET frame == stack[Len(stack)]
       IN  /\ stack' = SubSeq(stack, 1, Len(stack) - 1)
           /\ ret' = IF ret.err # ""
                     THEN Wrap(frame.m.Extends, ret)
                     ELSE Ok(mergeManifests(ret.m, frame.m))
    /\ UNCHANGED <<files, pc, top, arg, seen, calls, loads, last, first>>
    /\ UNCHANGED exceptLoad

\* the outermost frame returns to the caller of LoadWithInheritance
Finish ==
    /\ pc = "return"
    /\ stack = <<>>
    /\ pc' = "idle"
    /\ last' = [path |-> top, out |-> ret]
    /\ first' = IF first[top] = Nil THEN [first EXCEPT ![top] = ret] ELSE first
    /\ UNCHANGED <<files, top, arg, seen, stack, ret, calls, loads>>
    /\ UNCHANGED exceptLoad

Next ==
    \/ \E path \in CallArgs : LoadWithInheritance(path)
    \/ Enter
    \/ Return
    \/ Finish

Spec == Init /\ [][Next]_vars

(***************************************************************************)
(* The extends graph of the file system, for stating the loader's claims   *)
(***************************************************************************)

NoPath == "none"

\* the manifest path a loadable manifest at absPath extends, if any
ExtendsTarget(absPath) ==
    IF absPath = NoPath \/ files[absPath] \in {Nil, Malformed} THEN NoPath
    ELSE IF files[absPath].Extends = "" THEN NoPath
    ELSE Join(Dir(absPath), files[absPath].Extends)

RECURSIVE Nth(_, _)
\* the n-th manifest path of the extends chain starting at absPath
Nth(absPath, n) == IF n = 0 THEN absPath ELSE ExtendsTarget(Nth(absPath, n - 1))

ChainBound == Cardinality(AbsPaths)

\* positions at which the chain from absPath comes back to an earlier path
Revisits(absPath) ==
    { j \in 1..ChainBound :
        Nth(absPath, j) # NoPath /\ \E i \in 0..(j - 1) : Nth(absPath, i) = Nth(absPath, j) }

Min(S) == CHOOSE x \in S : \A y \in S : x <= y

Range(s) == { s[i] : i \in 1..Len(s) }

Finished == pc = "idle" /\ last # Nil

\* C8: LoadWithInheritance(p) fails with the circular-extends error, naming the
\* repeated path, exactly when the extends chain from p comes back to a path it
\* has visited; a chain that ends at a manifest without extends never does.
CircularExactlyOnRevisit ==
    Finished =>
        LET start == Abs(last.path) IN
        /\ (last.out.err = "circular extends detected") <=> (Revisits(start) # {})
        /\ (last.out.err = "circular extends detected")
               => last.out.path = Nth(start, Min(Revisits(start)))

CircularExactlyOnRevisitWitness ==
    /\ Finished
    /\ last.path = "a.jsonc"
    /\ files["/p/a.jsonc"] \notin {Nil, Malformed}
    /\ files["/p/a.jsonc"].Extends = "./b.jsonc"
    /\ files["/p/b.jsonc"] \notin {Nil, Malformed}
    /\ files["/p/b.jsonc"].Extends = "a.jsonc"
    /\ last.out.err = "circular extends detected"
    /\ last.out.path = "/p/a.jsonc"

\* C9: every manifest LoadWithInheritance returns has an empty extends field.
ReturnedExtendsCleared ==
    (Finished /\ last.out.err = "") => last.out.m.Extends = ""

ReturnedExtendsClearedWitness ==
    /\ Finished
    /\ last.out.err = ""
    /\ Len(loads) = 3
    /\ last.out.m.Extends = ""

\* C10: a finished call on path p has the outcome of the first call on p, and a
\* circular-extends error names a path this very call has loaded: paths visited
\* by earlier calls never cause it.
CallsIndependent ==
    Finished =>
        /\ last.out = first[last.path]
        /\ (last.out.err = "circular extends detected")
               => last.out.path \in Range(loads)

CallsIndependentWitness ==
    /\ Finished
    /\ calls = 2
    /\ first["a.jsonc"] # Nil
    /\ files["/p/a.jsonc"] \notin {Nil, Malformed}
    /\ files["/p/a.jsonc"].Extends = "./b.jsonc"
    /\ last.path = "/p/b.jsonc"
    /\ last.out.err = ""
    /\ first["a.jsonc"].err = ""

(***************************************************************************)
(* The environment overlay resolver.  An outcome is a returned manifest,   *)
(* a returned error or a run-time panic (a nil pointer dereference ends    *)
(* the program).                                                           *)
(***************************************************************************)

Resolved(m) == [kind |-> "ok", err |-> "", name |-> "", m |-> m]

\* fmt.Errorf("environment '%s' not found ...", envName)
NotFound(why, envName) ==
    [kind |-> "error", err |-> "environment not found " \o why, name |-> envName,
     m |-> Nil]

Panicked == [kind |-> "panic", err |-> "nil pointer dereference", name |-> "", m |-> Nil]

\* a faulty variant: an unknown environment falls back to the base manifest
ResolveEnvFallsBack(m, envName) ==
    IF envName = "" \/ m.Env = Nil \/ envName \notin Keys(m.Env)
    THEN Resolved([m EXCEPT !.Env = Nil])
    ELSE LET overlay == m.Env[envName] IN
         IF overlay = Nil THEN Panicked
         ELSE Resolved([m EXCEPT
                !.Profile = IF overlay.Profile # "" THEN overlay.Profile ELSE @,
                !.Source = mergeSource(@, overlay.Source),
                !.Destination = mergeDestination(@, overlay.Destination),
                !.Connection = mergeConnection(@, overlay.Connection),
                !.Transformation = mergeTransformation(@, overlay.Transformation),
                !.Env = Nil])

\* ResolveEnv(m, envName); overlay.Profile is read through the map entry, which
\* is a nil pointer when the file says "envName": null
\* a faulty variant: the env map stays in the resolved manifest
ResolveEnvKeepsEnv(m, envName) ==
    IF envName = "" THEN Resolved(m)
    ELSE IF m.Env = Nil THEN NotFound("(no env block defined)", envName)
    ELSE IF envName \notin DOMAIN m.Env THEN NotFound("in env block", envName)
    ELSE LET overlay == m.Env[envName] IN
         IF overlay = Nil THEN Panicked
         ELSE Resolved([m EXCEPT
                !.Profile = IF overlay.Profile # "" THEN overlay.Profile ELSE @,
                !.Source = mergeSource(@, overlay.Source),
                !.Destination = mergeDestination(@, overlay.Destination),
                !.Connection = mergeConnection(@, overlay.Connection),
                !.Transformation = mergeTransformation(@, overlay.Transformation)])

ResolveEnv(m, envName) ==
    IF envName = "" THEN Resolved([m EXCEPT !.Env = Nil])
    ELSE IF m.Env = Nil THEN NotFound("(no env block defined)", envName)
    ELSE IF envName \notin DOMAIN m.Env THEN NotFound("in env block", envName)
    ELSE LET overlay == m.Env[envName] IN
         IF overlay = Nil THEN Panicked
         ELSE Resolved([m EXCEPT
                !.Profile = IF overlay.Profile # "" THEN overlay.Profile ELSE @,
                !.Source = mergeSource(@, overlay.Source),
                !.Destination = mergeDestination(@, overlay.Destination),
                !.Connection = mergeConnection(@, overlay.Connection),
                !.Transformation = mergeTransformation(@, overlay.Transformation),
                !.Env = Nil])

\* the environment names handed to a resolver: none, two declared ones and an
\* undeclared one
SelectedNames == {""} \cup EnvNames \cup {"dev"}

\* the manifests handed to ResolveEnv, as LoadWithInheritance returns them
ResolveManifests ==
    [Schema : {""}, Version : {"1"}, Extends : {""}, Profile : {"", "a"},
     Source : SourceSamples, Destination : DestinationSamples,
     Connection : {Nil, CHOOSE c \in ConnectionSamples : c # Nil},
     Transformation : TransformationSamples, Env : EnvMapSamples]

(***************************************************************************)
(* The per-resource resolvers work on the resource shapes of the plural    *)
(* manifest, where every resource carries its own map of overrides keyed   *)
(* by environment name (Env, or EnvOverrides for a transformation).  The   *)
(* resolved resource is a new struct without that map.                     *)
(***************************************************************************)

\* map[string]string is copied key by key into a new map
copyEnv(env) == IF env = Nil THEN Nil ELSE [k \in DOMAIN env |-> env[k]]

\* a faulty variant: the config map is not copied to the result
ResolveSourceEnvDropsConfig(src, envName) ==
    LET base == [Name |-> src.Name, Type |-> src.Type,
                 Description |-> src.Description, Config |-> Nil, Env |-> Nil]
    IN  IF envName = "" \/ src.Env = Nil THEN Resolved(base)
        ELSE IF envName \notin DOMAIN src.Env THEN Resolved(base)
        ELSE LET override == src.Env[envName] IN
             IF override = Nil THEN Panicked
             ELSE Resolved([base EXCEPT
                    !.Type = IF override.Type # "" THEN override.Type ELSE @,
                    !.Description =
                        IF override.Description # "" THEN override.Description ELSE @,
                    !.Config = IF override.Config # Nil THEN override.Config ELSE @])

ResolveSourceEnv(src, envName) ==
    LET base == [Name |-> src.Name, Type |-> src.Type,
                 Description |-> src.Description, Config |-> src.Config, Env |-> Nil]
    IN  IF envName = "" \/ src.Env = Nil THEN Resolved(base)
        ELSE IF envName \notin DOMAIN src.Env THEN Resolved(base)
        ELSE LET override == src.Env[envName] IN
             IF override = Nil THEN Panicked
             ELSE Resolved([base EXCEPT
                    !.Type = IF override.Type # "" THEN override.Type ELSE @,
                    !.Description =
                        IF override.Description # "" THEN override.Description ELSE @,
                    !.Config = IF override.Config # Nil THEN override.Config ELSE @])

ResolveDestinationEnv(dst, envName) ==
    LET base == [dst EXCEPT !.Env = Nil]
    IN  IF envName = "" \/ dst.Env = Nil THEN Resolved(base)
        ELSE IF envName \notin DOMAIN dst.Env THEN Resolved(base)
        ELSE LET override == dst.Env[envName] IN
             IF override = Nil THEN Panicked
             ELSE Resolved([base EXCEPT
                    !.URL = IF override.URL # "" THEN override.URL ELSE @,
                    !.Type = IF override.Type # "" THEN override.Type ELSE @,
                    !.Description =
                        IF override.Description # "" THEN override.Description ELSE @,
                    !.AuthType = IF override.AuthType # "" THEN override.AuthType ELSE @,
                    !.Auth = IF override.Auth # Nil THEN override.Auth ELSE @,
                    !.Config = IF override.Config # Nil THEN override.Config ELSE @,
                    !.RateLimit = IF override.RateLimit # 0 THEN override.RateLimit ELSE @,
                    !.RateLimitPeriod =
                        IF override.RateLimitPeriod # "" THEN override.RateLimitPeriod
                        ELSE @])

ResolveTransformationEnv(tr, envName) ==
    LET base == [Name |-> tr.Name, Description |-> tr.Description,
                 CodeFile |-> tr.CodeFile, Env |-> copyEnv(tr.Env),
                 EnvOverrides |-> Nil]
    IN  IF envName = "" \/ tr.EnvOverrides = Nil THEN Resolved(base)
        ELSE IF envName \notin DOMAIN tr.EnvOverrides THEN Resolved(base)
        ELSE LET override == tr.EnvOverrides[envName] IN
             IF override = Nil THEN Panicked
             ELSE Resolved([base EXCEPT
                    !.Description =
                        IF override.Description # "" THEN override.Description ELSE @,
                    !.CodeFile = IF override.CodeFile # "" THEN override.CodeFile ELSE @,
                    !.Env = IF override.Env = Nil THEN @
                            ELSE [k \in Keys(@) \cup DOMAIN override.Env |->
                                    IF k \in DOMAIN override.Env THEN override.Env[k]
                                    ELSE @[k]]])

\* a resource's override map: absent, empty, or one entry for "production"
\* (a null entry included)
OverrideMaps(overrides) ==
    {Nil, EmptyMap} \cup { Map1("production", o) : o \in overrides \cup {Nil} }

SourceOverrides ==
    [Type : {"", "b"}, Description : {"", "b"},
     Config : {Nil, EmptyMap, Map1("b", JStr("3"))}]

PluralSources ==
    [Name : {"src"}, Type : {"", "a"}, Description : {"", "a"},
     Config : {Nil, Map2("a", JStr("1"), "b", JStr("2"))},
     Env : OverrideMaps(SourceOverrides)]

DestinationOverrides ==
    [URL : {"", "b"}, Type : {""}, Description : {""}, AuthType : {"", "b"},
     Auth : {Nil, Map1("b", JStr("3"))}, Config : {Nil, Map1("c", JStr("4"))},
     RateLimit : {0, 200}, RateLimitPeriod : {"", "b"}]

PluralDestinations ==
    [Name : {"dest"}, URL : {"a"}, Type : {"HTTP"}, Description : {""},
     AuthType : {"", "a"}, Auth : {Nil, Map2("a", JStr("1"), "b", JStr("2"))},
     Config : {Nil, Map2("a", JStr("1"), "c", JStr("2"))},
     RateLimit : {0, 100}, RateLimitPeriod : {"a"},
     Env : OverrideMaps(DestinationOverrides)]

TransformationOverrides ==
    [Description : {"", "b"}, CodeFile : {"", "b"},
     Env : {Nil, Map1("KEY", "z"), Map1("API", "y")}]

PluralTransformations ==
    [Name : {"tr"}, Description : {"", "a"}, CodeFile : {"a"},
     Env : {Nil, EmptyMap, Map1("API", "x")},
     EnvOverrides : OverrideMaps(TransformationOverrides)]

Resolvers ==
    {"ResolveEnv", "ResolveSourceEnv", "ResolveDestinationEnv",
     "ResolveTransformationEnv"}

Subjects(r) ==
    CASE r = "ResolveEnv"               -> ResolveManifests
      [] r = "ResolveSourceEnv"         -> PluralSources
      [] r = "ResolveDestinationEnv"    -> PluralDestinations
      [] r = "ResolveTransformationEnv" -> PluralTransformations

(***************************************************************************)
(* The resolvers applied to bounded inputs: one call of one resolver.      *)
(***************************************************************************)

InitResolve ==
    /\ resolver \in Resolvers
    /\ subject \in Subjects(resolver)
    /\ selected \in SelectedNames
    /\ resolved = Nil
    /\ MergeOff
    /\ LoaderOff
    /\ InterpolateOff
    /\ PipelineOff
    /\ DriftOff
    /\ RegistryOff
    /\ ParseOff
    /\ DeployOff

\* resolved, err := ResolveEnv(m, flagEnv)
CallResolveEnv ==
    /\ resolver = "ResolveEnv" /\ resolved = Nil
    /\ resolved' = ResolveEnv(subject, selected)
    /\ UNCHANGED <<resolver, subject, selected>>
    /\ UNCHANGED exceptResolve

\* resolved := ResolveSourceEnv(&m.Sources[i], flagEnv)
CallResolveSourceEnv ==
    /\ resolver = "ResolveSourceEnv" /\ resolved = Nil
    /\ resolved' = ResolveSourceEnv(subject, selected)
    /\ UNCHANGED <<resolver, subject, selected>>
    /\ UNCHANGED exceptResolve

\* resolved := ResolveDestinationEnv(&m.Destinations[i], flagEnv)
CallResolveDestinationEnv ==
    /\ resolver = "ResolveDestinationEnv" /\ resolved = Nil
    /\ resolved' = ResolveDestinationEnv(subject, selected)
    /\ UNCHANGED <<resolver, subject, selected>>
    /\ UNCHANGED exceptResolve

\* resolved := ResolveTransformationEnv(&m.Transformations[i], flagEnv)
CallResolveTransformationEnv ==
    /\ resolver = "ResolveTransformationEnv" /\ resolved = Nil
    /\ resolved' = ResolveTransformationEnv(subject, selected)
    /\ UNCHANGED <<resolver, subject, selected>>
    /\ UNCHANGED exceptResolve

NextResolve ==
    \/ CallResolveEnv
    \/ CallResolveSourceEnv
    \/ CallResolveDestinationEnv
    \/ CallResolveTransformationEnv

SpecResolve == InitResolve /\ [][NextResolve]_vars

Called(r) == resolver = r /\ resolved # Nil

\* C11: when the env map has an entry for the non-empty environment name,
\* ResolveEnv succeeds; the result's profile is the overlay's if that is
\* non-empty and the base profile otherwise, each resource is the merge of the
\* base resource with the overlay's, the other fields are the base's and the
\* env map is empty.
ResolveEnvAppliesOverlay ==
    (Called("ResolveEnv") /\ selected # "" /\ selected \in Keys(subject.Env)) =>
        /\ resolved.kind = "ok"
        /\ LET overlay == subject.Env[selected]
               out == resolved.m
           IN  /\ out.Profile = IF overlay.Profile # "" THEN overlay.Profile
                                ELSE subject.Profile
               /\ out.Source = mergeSource(subject.Source, overlay.Source)
               /\ out.Destination =
                      mergeDestination(subject.Destination, overlay.Destination)
               /\ out.Connection =
                      mergeConnection(subject.Connection, overlay.Connection)
               /\ out.Transformation =
                      mergeTransformation(subject.Transformation, overlay.Transformation)
               /\ out.Env = Nil
               /\ out.Schema = subject.Schema /\ out.Version = subject.Version

\* C30: for every manifest and every environment name, an env map whose entry
\* for the name is a null override included, ResolveEnv returns a resolved
\* manifest or an error; it never crashes.
ResolveEnvNeverCrashes ==
    Called("ResolveEnv") =>
        \/ resolved.kind = "ok" /\ resolved.m # Nil
        \/ resolved.kind = "error" /\ resolved.m = Nil

\* C12: with a non-empty environment name, ResolveEnv returns an
\* environment-not-found error naming it, and no manifest, when the manifest
\* has no env map or the map has no entry for the name; with an empty name it
\* never fails.
UnknownEnvironmentFails ==
    Called("ResolveEnv") =>
        /\ (selected # "" /\ selected \notin Keys(subject.Env)) =>
               /\ resolved.kind = "error"
               /\ resolved.err \in {"environment not found (no env block defined)",
                                    "environment not found in env block"}
               /\ resolved.name = selected
               /\ resolved.m = Nil
        /\ selected = "" => resolved.kind = "ok"

UnknownEnvironmentFailsWitness ==
    /\ Called("ResolveEnv")
    /\ selected = "dev"
    /\ subject.Env # Nil
    /\ subject.Source # Nil
    /\ resolved.kind = "error"

\* the fields a per-resource override can set
OverrideScalars(r) ==
    CASE r = "ResolveSourceEnv"         -> {"Type", "Description"}
      [] r = "ResolveDestinationEnv"    ->
             {"URL", "Type", "Description", "AuthType", "RateLimit", "RateLimitPeriod"}
      [] r = "ResolveTransformationEnv" -> {"Description", "CodeFile"}

OverrideMapFields(r) ==
    CASE r = "ResolveSourceEnv"         -> {"Config"}
      [] r = "ResolveDestinationEnv"    -> {"Auth", "Config"}
      [] r = "ResolveTransformationEnv" -> {"Env"}

OverridesOf(res) == IF "EnvOverrides" \in DOMAIN res THEN res.EnvOverrides ELSE res.Env

HasOverride == selected # "" /\ selected \in Keys(OverridesOf(subject))

\* C13: when an override exists for the environment name, ResolveSourceEnv and
\* ResolveDestinationEnv override a scalar only by a non-zero override value
\* and shallow-merge the config and auth maps: a key of the base map that the
\* override's map does not have is still in the result, with the base's value.
PerResourceShallowMerge ==
    \A r \in {"ResolveSourceEnv", "ResolveDestinationEnv"} :
        (Called(r) /\ HasOverride /\ subject.Env[selected] # Nil) =>
            LET override == subject.Env[selected]
                out == resolved.m
            IN  /\ resolved.kind = "ok"
                /\ \A f \in OverrideScalars(r) :
                       out[f] = IF IsZero(f, override[f]) THEN subject[f]
                                ELSE override[f]
                /\ \A f \in OverrideMapFields(r) :
                       \A k \in Keys(subject[f]) \ Keys(override[f]) :
                           k \in Keys(out[f]) /\ out[f][k] = subject[f][k]

\* C14: no per-resource resolver reports an error; with an empty environment
\* name, or without an override for the name, the result has the name, the
\* scalar fields and the map contents of the input resource.
NoOverrideKeepsResource ==
    \A r \in Resolvers \ {"ResolveEnv"} :
        (Called(r) /\ ~HasOverride) =>
            /\ resolved.kind = "ok"
            /\ resolved.m.Name = subject.Name
            /\ \A f \in OverrideScalars(r) : resolved.m[f] = subject[f]
            /\ \A f \in OverrideMapFields(r) :
                   /\ Keys(resolved.m[f]) = Keys(subject[f])
                   /\ \A k \in Keys(subject[f]) : resolved.m[f][k] = subject[f][k]

NoOverrideKeepsResourceWitness ==
    /\ Called("ResolveSourceEnv")
    /\ selected = "dev"
    /\ subject.Env # Nil /\ "production" \in DOMAIN subject.Env
    /\ subject.Env["production"] # Nil
    /\ subject.Config # Nil /\ subject.Description # ""
    /\ resolved.kind = "ok"

(***************************************************************************)
(* The interpolator.  A string is a sequence of characters here, because   *)
(* InterpolateEnvVars works on the bytes of the serialised manifest.  The  *)
(* serialised form is a sequence of tokens: the characters $ { } " \ : ,   *)
(* stand for themselves, any other token is a run of bytes with none of    *)
(* these in it (a letter, a key name, a number).  The manifest is taken    *)
(* with its profile, its destination's url and rate_limit and its env map  *)
(* of overlays: a string field, a pointer to a struct, a string field      *)
(* inside it, a field that is not a string and a map of pointers; the      *)
(* other fields are serialised the same way.                               *)
(***************************************************************************)

Quote == "\""
Backslash == "\\"

\* the body of a JSON string literal for the string s
RECURSIVE escape(_)
escape(s) ==
    IF s = <<>> THEN <<>>
    ELSE (IF Head(s) \in {Quote, Backslash} THEN <<Backslash, Head(s)>>
          ELSE <<Head(s)>>) \o escape(Tail(s))

\* the digits of an int field
Digits(n) == CASE n = 100 -> "100" [] n = 200 -> "200" [] n = 300 -> "300"

Number(tok) == CASE tok = "100" -> 100 [] tok = "200" -> 200 [] tok = "300" -> 300

StringMember(key, s) ==
    IF s = <<>> THEN <<>> ELSE << <<Quote, key, Quote, ":", Quote>> \o escape(s) \o <<Quote>> >>

IntMember(key, n) ==
    IF n = 0 THEN <<>> ELSE << <<Quote, key, Quote, ":", Digits(n)>> >>

RECURSIVE Commas(_)
Commas(members) ==
    IF members = <<>> THEN <<>>
    ELSE IF Len(members) = 1 THEN members[1]
    ELSE members[1] \o <<",">> \o Commas(Tail(members))

Object(members) == <<"{">> \o Commas(members) \o <<"}">>

StructMember(key, ptr, members) ==
    IF ptr = Nil THEN <<>> ELSE << <<Quote, key, Quote, ":">> \o Object(members) >>

\* the members of a manifest or of an overlay
Members(v) ==
    StringMember("profile", v.Profile)
    \o StructMember("destination", v.Destination,
           IF v.Destination = Nil THEN <<>>
           ELSE StringMember("url", v.Destination.URL)
                \o IntMember("rate_limit", v.Destination.RateLimit))

\* the keys of an env map in the order json.Marshal writes them: sorted
SortedKeys(env) ==
    SelectSeq(<<"dev", "production", "staging">>, LAMBDA n : n \in Keys(env))

\* the env member: left out for an empty map, null for a nil overlay
EnvMember(env) ==
    IF Keys(env) = {} THEN <<>>
    ELSE << <<Quote, "env", Quote, ":">>
            \o Object([n \in 1..Len(SortedKeys(env)) |->
                          LET name == SortedKeys(env)[n] IN
                          <<Quote, name, Quote, ":">>
                          \o (IF env[name] = Nil THEN <<"null">>
                              ELSE Object(Members(env[name])))]) >>

\* json.Marshal(m): every field is tagged omitempty
Marshal(m) == Object(Members(m) \o EnvMember(m.Env))

\* a variable of the process environment that is set, to the value v
Set(v) == [val |-> v]

\* os.LookupEnv(varName): the model's environment holds one-letter names
LookupEnv(env, varName) ==
    IF Len(varName) = 1 /\ varName[1] \in DOMAIN env THEN env[varName[1]] ELSE Nil

\* the end of the leftmost match of \$\{([^}]+)\} that starts at i, or 0
MatchEnd(data, i) ==
    IF /\ i + 3 <= Len(data)
       /\ data[i] = "$" /\ data[i + 1] = "{" /\ data[i + 2] # "}"
       /\ \E j \in (i + 3)..Len(data) : data[j] = "}"
    THEN CHOOSE j \in (i + 3)..Len(data) :
             data[j] = "}" /\ \A k \in (i + 3)..(j - 1) : data[k] # "}"
    ELSE 0

\* envVarPattern.ReplaceAllFunc(data, ...) from position i on: the replaced
\* bytes and the names appended to missing
RECURSIVE ReplaceAllFunc(_, _, _)
ReplaceAllFunc(env, data, i) ==
    IF i > Len(data) THEN [out |-> <<>>, missing |-> <<>>]
    ELSE LET j == MatchEnd(data, i) IN
         IF j = 0
         THEN LET rest == ReplaceAllFunc(env, data, i + 1)
              IN  [rest EXCEPT !.out = <<data[i]>> \o @]
         ELSE LET varName == SubSeq(data, i + 2, j - 1)
                  val == LookupEnv(env, varName)
                  rest == ReplaceAllFunc(env, data, j + 1)
              IN  IF val = Nil
                  THEN [out |-> SubSeq(data, i, j) \o rest.out,
                        missing |-> <<varName>> \o rest.missing]
                  ELSE [rest EXCEPT !.out = escape(val.val) \o @]

\* the characters of a string literal whose opening quote is before i
RECURSIVE ReadString(_, _)
ReadString(data, i) ==
    IF i > Len(data) THEN [ok |-> FALSE, val |-> <<>>, next |-> i]
    ELSE IF data[i] = Quote THEN [ok |-> TRUE, val |-> <<>>, next |-> i + 1]
    ELSE IF data[i] = Backslash
         THEN IF i + 1 > Len(data) THEN [ok |-> FALSE, val |-> <<>>, next |-> i]
              ELSE LET r == ReadString(data, i + 2)
                   IN  [r EXCEPT !.val = <<data[i + 1]>> \o @]
    ELSE LET r == ReadString(data, i + 1) IN [r EXCEPT !.val = <<data[i]>> \o @]

ZeroDestinationFields == [URL |-> <<>>, RateLimit |-> 0]

ZeroOverlayFields == [Profile |-> <<>>, Destination |-> Nil]

\* the decoder on the members of an object, from position i on, storing into
\* the existing struct v: a member the text does not have keeps its value, a
\* nil pointer gets a new struct, a non-nil pointer is decoded into, an
\* element of a map is decoded into a new value
RECURSIVE decodeObject(_, _, _, _)
decodeObject(data, i, v, struct) ==
    LET Fail == [ok |-> FALSE, v |-> v, next |-> i] IN
    IF i > Len(data) THEN Fail
    ELSE IF data[i] = "}" THEN [ok |-> TRUE, v |-> v, next |-> i + 1]
    ELSE IF data[i] = "," THEN decodeObject(data, i + 1, v, struct)
    ELSE IF ~(/\ i + 4 <= Len(data)
              /\ data[i] = Quote /\ data[i + 2] = Quote /\ data[i + 3] = ":")
         THEN Fail
    ELSE LET key == data[i + 1] IN
         IF struct \in {"Manifest", "EnvOverride"} /\ key = "profile"
            /\ data[i + 4] = Quote
         THEN LET r == ReadString(data, i + 5)
              IN  IF r.ok
                  THEN decodeObject(data, r.next, [v EXCEPT !.Profile = r.val], struct)
                  ELSE Fail
         ELSE IF struct \in {"Manifest", "EnvOverride"} /\ key = "destination"
                 /\ data[i + 4] = "{"
         THEN LET r == decodeObject(data, i + 5,
                                    IF v.Destination = Nil THEN ZeroDestinationFields
                                    ELSE v.Destination,
                                    "DestinationConfig")
              IN  IF r.ok
                  THEN decodeObject(data, r.next, [v EXCEPT !.Destination = r.v], struct)
                  ELSE Fail
         ELSE IF struct = "Manifest" /\ key = "env" /\ data[i + 4] = "{"
         THEN LET r == decodeObject(data, i + 5,
                                    IF v.Env = Nil THEN EmptyMap ELSE v.Env, "map")
              IN  IF r.ok
                  THEN decodeObject(data, r.next, [v EXCEPT !.Env = r.v], struct)
                  ELSE Fail
         ELSE IF struct = "map" /\ data[i + 4] = "null"
         THEN decodeObject(data, i + 5, Put(v, key, Nil), struct)
         ELSE IF struct = "map" /\ data[i + 4] = "{"
         THEN LET r == decodeObject(data, i + 5, ZeroOverlayFields, "EnvOverride")
              IN  IF r.ok THEN decodeObject(data, r.next, Put(v, key, r.v), struct)
                  ELSE Fail
         ELSE IF struct = "DestinationConfig" /\ key = "url" /\ data[i + 4] = Quote
         THEN LET r == ReadString(data, i + 5)
              IN  IF r.ok
                  THEN decodeObject(data, r.next, [v EXCEPT !.URL = r.val], struct)
                  ELSE Fail
         ELSE IF /\ struct = "DestinationConfig" /\ key = "rate_limit"
                 /\ data[i + 4] \in {"100", "200", "300"}
         THEN decodeObject(data, i + 5, [v EXCEPT !.RateLimit = Number(data[i + 4])],
                           struct)
         ELSE Fail

Interpolated(m) == [kind |-> "ok", missing |-> <<>>, m |-> m]

\* fmt.Errorf("undefined environment variables: %v", missing); m is the
\* manifest as the call leaves it
Undefined(missing, m) ==
    [kind |-> "undefined environment variables", missing |-> missing, m |-> m]

\* json.Unmarshal(data, m): the text is checked as a whole before anything is
\* stored
Unmarshal(data, m) ==
    LET r == IF data # <<>> /\ data[1] = "{" THEN decodeObject(data, 2, m, "Manifest")
             ELSE [ok |-> FALSE, v |-> m, next |-> 1]
    IN  IF r.ok /\ r.next = Len(data) + 1 THEN Interpolated(r.v)
        ELSE [kind |-> "invalid JSON", missing |-> <<>>, m |-> m]

\* a faulty variant: the replaced text is stored before the missing list is
\* looked at
InterpolateEnvVarsStoresFirst(env, m) ==
    LET r == ReplaceAllFunc(env, Marshal(m), 1)
        stored == Unmarshal(r.out, m)
    IN  IF r.missing # <<>> THEN Undefined(r.missing, stored.m) ELSE stored

\* InterpolateEnvVars(m) in the process environment env
InterpolateEnvVars(env, m) ==
    LET data == Marshal(m)
        r == ReplaceAllFunc(env, data, 1)
    IN  IF r.missing # <<>> THEN Undefined(r.missing, m)
        ELSE Unmarshal(r.out, m)

MaxParts == 2
MaxRuns == 2

\* what a string field is made of: a placeholder, plain text, a quote, an
\* opening ${ and a closing brace on their own
Pieces ==
    { <<"$", "{", "A", "}">>, <<"$", "{", "B", "}">>, <<"x">>, <<Quote>>,
      <<"$", "{">>, <<"}">> }

RECURSIVE Concat(_)
Concat(ps) == IF ps = <<>> THEN <<>> ELSE Head(ps) \o Concat(Tail(ps))

Texts == { Concat(ps) : ps \in SeqsUpTo(Pieces, MaxParts) }

URLs == { <<>>, <<"h">>, <<"h", "$", "{", "B", "}">>, <<"h", "}">> }

InterpolateManifests ==
    [Profile : Texts,
     Destination : {Nil} \cup [URL : URLs, RateLimit : {0, 100}],
     Env : {Nil}]

\* A is unset, or set to plain text, to a quote or to text with a placeholder
\* in it; B is unset or set
Environments ==
    { [n \in {"A", "B"} |-> IF n = "A" THEN a ELSE b] :
        a \in {Nil, Set(<<"v">>), Set(<<Quote>>), Set(<<"$", "{", "B", "}">>)},
        b \in {Nil, Set(<<"w">>)} }

InitInterpolate ==
    /\ environ \in Environments
    /\ manifest \in InterpolateManifests
    /\ prior = Nil
    /\ outcome = Nil
    /\ runs = 0
    /\ MergeOff
    /\ LoaderOff
    /\ ResolveOff
    /\ PipelineOff
    /\ DriftOff
    /\ RegistryOff
    /\ ParseOff
    /\ DeployOff

\* err := InterpolateEnvVars(m); m is changed in place
Interpolate ==
    /\ runs < MaxRuns
    /\ LET r == InterpolateEnvVars(environ, manifest)
       IN  /\ outcome' = [kind |-> r.kind, missing |-> r.missing,
                           after |-> IF outcome = Nil THEN "" ELSE outcome.kind]
           /\ manifest' = r.m
    /\ prior' = manifest
    /\ runs' = runs + 1
    /\ UNCHANGED environ
    /\ UNCHANGED exceptInterpolate

NextInterpolate == Interpolate

SpecInterpolate == InitInterpolate /\ [][NextInterpolate]_vars

(***************************************************************************)
(* What the interpolator is to do, stated on the string fields: the        *)
(* occurrences of ${NAME} inside one field, NAME being a run of one or     *)
(* more characters other than }.                                           *)
(***************************************************************************)

\* the field s from position i on with every ${NAME} whose variable is set
\* replaced by the value, and the names of all its placeholders
RECURSIVE Expand(_, _, _)
Expand(env, s, i) ==
    IF i > Len(s) THEN [out |-> <<>>, names |-> <<>>]
    ELSE LET j == MatchEnd(s, i) IN
         IF j = 0
         THEN LET rest == Expand(env, s, i + 1) IN [rest EXCEPT !.out = <<s[i]>> \o @]
         ELSE LET varName == SubSeq(s, i + 2, j - 1)
                  val == LookupEnv(env, varName)
                  rest == Expand(env, s, j + 1)
              IN  [out |-> (IF val = Nil THEN SubSeq(s, i, j) ELSE val.val) \o rest.out,
                   names |-> <<varName>> \o rest.names]

StringFields(m) ==
    <<m.Profile>> \o (IF m.Destination = Nil THEN <<>> ELSE <<m.Destination.URL>>)

\* the variables the placeholders of the manifest name, in field order
References(m) ==
    Concat([i \in 1..Len(StringFields(m)) |-> Expand(environ, StringFields(m)[i], 1).names])

Unset(m) == { n \in Range(References(m)) : LookupEnv(environ, n) = Nil }

Substituted(m) ==
    [m EXCEPT !.Profile = Expand(environ, @, 1).out,
              !.Destination =
                  IF @ = Nil THEN Nil
                  ELSE [@ EXCEPT !.URL = Expand(environ, @, 1).out]]

\* C15: when every variable a ${NAME} placeholder refers to is set,
\* InterpolateEnvVars succeeds and every string field is its previous content
\* with each ${NAME} replaced by the variable's value, also a value with a
\* quote in it; other text and fields that are not strings are unchanged.
InterpolationReplaces ==
    (runs > 0 /\ Unset(prior) = {}) =>
        outcome.kind = "ok" /\ manifest = Substituted(prior)

\* C16: InterpolateEnvVars fails exactly when a ${NAME} placeholder of the
\* manifest names a variable that is not set, and the error names every such
\* variable.
InterpolationFailsOnUnset ==
    runs > 0 =>
        /\ outcome.kind # "ok" <=> Unset(prior) # {}
        /\ outcome.kind # "ok" => Unset(prior) \subseteq Range(outcome.missing)

\* C17: when InterpolateEnvVars fails for a missing variable, the manifest is
\* as it was before the call; no placeholder has been replaced.
InterpolationFailureLeavesManifest ==
    (runs > 0 /\ outcome.kind = "undefined environment variables") =>
        manifest = prior

InterpolationFailureLeavesManifestWitness ==
    /\ runs = 1
    /\ outcome.kind = "undefined environment variables"
    /\ environ["A"] = Set(<<"v">>) /\ environ["B"] = Nil
    /\ prior.Profile = <<"$", "{", "A", "}", "$", "{", "B", "}">>
    /\ manifest.Profile = prior.Profile

\* C18: a second application to the result of a successful application
\* succeeds and leaves the manifest unchanged.
InterpolationIdempotent ==
    (runs >= 2 /\ outcome.after = "ok") =>
        outcome.kind = "ok" /\ manifest = prior

(***************************************************************************)
(* The pipeline of a deploy run: ResolveEnv on the loaded manifest m, then *)
(* InterpolateEnvVars on the resolved manifest.  The resolved manifest is  *)
(* a copy of the struct m, whose Destination pointer is the one            *)
(* mergeDestination returns: the base's, the overlay's or a new struct.    *)
(* json.Unmarshal stores through a non-nil pointer, so what it stores is   *)
(* seen through every pointer to the same struct.                          *)
(***************************************************************************)

\* the strings of the pipeline's manifests and their characters
KnownStrings == {"", "a", "h", "v", "w", "${A}", "${B}"}

Chars(s) ==
    CASE s = ""     -> <<>>
      [] s = "${A}" -> <<"$", "{", "A", "}">>
      [] s = "${B}" -> <<"$", "{", "B", "}">>
      [] OTHER      -> <<s>>

Text(cs) == CHOOSE s \in KnownStrings : Chars(s) = cs

\* the manifest, or an overlay, as the interpolator's model takes it
FieldBytes(v) ==
    [Profile |-> Chars(v.Profile),
     Destination |-> IF v.Destination = Nil THEN Nil
                     ELSE [URL |-> Chars(v.Destination.URL),
                           RateLimit |-> v.Destination.RateLimit]]

Bytes(m) ==
    [Profile |-> FieldBytes(m).Profile,
     Destination |-> FieldBytes(m).Destination,
     Env |-> IF m.Env = Nil THEN Nil
             ELSE [n \in DOMAIN m.Env |->
                      IF m.Env[n] = Nil THEN Nil ELSE FieldBytes(m.Env[n])]]

\* the manifest m after json.Unmarshal has stored the decoded fields b
Stored(m, b) ==
    [m EXCEPT !.Profile = Text(b.Profile),
              !.Destination =
                  IF b.Destination = Nil THEN @
                  ELSE [(IF @ = Nil THEN ZeroDestination ELSE @) EXCEPT
                           !.URL = Text(b.Destination.URL),
                           !.RateLimit = b.Destination.RateLimit],
              !.Env =
                  IF b.Env = Bytes(m).Env THEN @
                  ELSE [n \in DOMAIN b.Env |->
                           IF b.Env[n] = Nil THEN Nil
                           ELSE [ZeroEnvOverride EXCEPT
                                   !.Profile = Text(b.Env[n].Profile),
                                   !.Destination =
                                       IF b.Env[n].Destination = Nil THEN Nil
                                       ELSE [ZeroDestination EXCEPT
                                               !.URL = Text(b.Env[n].Destination.URL),
                                               !.RateLimit =
                                                   b.Env[n].Destination.RateLimit]]]]

\* the struct that the Destination pointer of ResolveEnv's result points to
destinationPointer(m, envName) ==
    IF envName = ""
    THEN IF m.Destination = Nil THEN "none" ELSE "base"
    ELSE LET overlay == m.Env[envName] IN
         IF overlay.Destination = Nil
         THEN IF m.Destination = Nil THEN "none" ELSE "base"
         ELSE IF m.Destination = Nil THEN "overlay" ELSE "new"

PipelineDestination(url) ==
    [Name |-> "dest", URL |-> url, Type |-> "", Description |-> "", AuthType |-> "",
     Auth |-> Nil, Config |-> Nil, RateLimit |-> 100, RateLimitPeriod |-> ""]

PipelineOverlays ==
    [Profile : {"", "${B}"}, Source : {Nil},
     Destination : {Nil, [PipelineDestination("${B}") EXCEPT !.Name = "", !.RateLimit = 0],
                    [PipelineDestination("") EXCEPT !.RateLimit = 200]},
     Connection : {Nil}, Transformation : {Nil}]

PipelineManifests ==
    [Schema : {""}, Version : {"1"}, Extends : {""}, Profile : {"a", "${A}"},
     Source : {Nil},
     Destination : {Nil, PipelineDestination("${A}"), PipelineDestination("h")},
     Connection : {Nil}, Transformation : {Nil},
     Env : {Nil} \cup [EnvNames -> PipelineOverlays]]

PipelineEnvironments ==
    { [n \in {"A", "B"} |-> IF n = "A" THEN a ELSE b] :
        a \in {Nil, Set(<<"v">>)}, b \in {Nil, Set(<<"w">>)} }

InitPipeline ==
    /\ given \in PipelineManifests
    /\ memory = given
    /\ choice \in {""} \cup EnvNames
    /\ procenv \in PipelineEnvironments
    /\ target = Nil
    /\ shares = ""
    /\ stage = "loaded"
    /\ lookups = {}
    /\ undefined = <<>>
    /\ MergeOff
    /\ LoaderOff
    /\ ResolveOff
    /\ InterpolateOff
    /\ DriftOff
    /\ RegistryOff
    /\ ParseOff
    /\ DeployOff

\* m, err = manifest.ResolveEnv(m, flagEnv)
PipelineResolve ==
    /\ stage = "loaded"
    /\ LET r == ResolveEnv(memory, choice)
       IN  IF r.kind = "ok"
           THEN /\ target' = r.m
                /\ shares' = destinationPointer(memory, choice)
                /\ stage' = "resolved"
           ELSE /\ stage' = "failed"
                /\ UNCHANGED <<target, shares>>
    /\ UNCHANGED <<given, memory, choice, procenv, lookups, undefined>>
    /\ UNCHANGED exceptPipeline

\* err := manifest.InterpolateEnvVars(m) on the resolved manifest
PipelineInterpolate ==
    /\ stage = "resolved"
    /\ LET r == InterpolateEnvVars(procenv, Bytes(target))
           out == Stored(target, r.m)
       IN  IF r.kind = "ok"
           THEN /\ target' = out
                /\ memory' =
                       CASE shares = "base" ->
                              [memory EXCEPT !.Destination = out.Destination]
                         [] shares = "overlay" ->
                              [memory EXCEPT !.Env[choice].Destination = out.Destination]
                         [] OTHER -> memory
                /\ stage' = "interpolated"
           ELSE /\ stage' = "failed"
                /\ UNCHANGED <<target, memory>>
    /\ lookups' = Range(ReplaceAllFunc([n \in DOMAIN procenv |-> Nil],
                                       Marshal(Bytes(target)), 1).missing)
    /\ undefined' = InterpolateEnvVars(procenv, Bytes(target)).missing
    /\ UNCHANGED <<given, choice, procenv, shares>>
    /\ UNCHANGED exceptPipeline

NextPipeline == PipelineResolve \/ PipelineInterpolate

SpecPipeline == InitPipeline /\ [][NextPipeline]_vars

\* C19: the pipeline does not change its input: after ResolveEnv(m, envName)
\* and after InterpolateEnvVars on the resolved manifest, the manifest m that
\* was handed to ResolveEnv is as it was, with its resources and its env
\* overlays.
PipelineLeavesInput ==
    stage \in {"resolved", "interpolated", "failed"} => memory = given

\* the placeholder of a one-letter variable, and the overlays that hold it
Placeholder(n) == IF n = "A" THEN "${A}" ELSE "${B}"

Mentions(v, n) ==
    \/ v.Profile = Placeholder(n)
    \/ v.Destination # Nil /\ v.Destination.URL = Placeholder(n)

InSelected(n) ==
    choice # "" /\ given.Env # Nil /\ Mentions(given.Env[choice], n)

OnlyInOtherOverlays(n) ==
    /\ ~Mentions(given, n)
    /\ ~InSelected(n)
    /\ given.Env # Nil
    /\ \E e \in DOMAIN given.Env : e # choice /\ Mentions(given.Env[e], n)

PipelineInterpolated == target # Nil /\ stage \in {"interpolated", "failed"}

\* C29: in the pipeline of ResolveEnv(envName) and then InterpolateEnvVars, a
\* placeholder ${NAME} that occurs only in env overlays other than the selected
\* one is never looked up and is never reported as undefined, and a
\* placeholder of the selected overlay is looked up: it is replaced by the
\* variable's value, or reported as undefined when the variable is unset.
OtherOverlaysNotInterpolated ==
    PipelineInterpolated =>
        \A n \in DOMAIN procenv :
            /\ OnlyInOtherOverlays(n) =>
                   /\ <<n>> \notin lookups
                   /\ <<n>> \notin Range(undefined)
            /\ InSelected(n) =>
                   /\ <<n>> \in lookups
                   /\ procenv[n] = Nil =>
                          stage = "failed" /\ <<n>> \in Range(undefined)
                   /\ stage = "interpolated" =>
                          LET o == given.Env[choice] IN
                          /\ o.Profile = Placeholder(n) =>
                                 <<target.Profile>> = procenv[n].val
                          /\ (o.Destination # Nil
                                 /\ o.Destination.URL = Placeholder(n)) =>
                                 <<target.Destination.URL>> = procenv[n].val

OtherOverlaysNotInterpolatedWitness ==
    /\ stage = "interpolated"
    /\ choice = "staging"
    /\ OnlyInOtherOverlays("B")
    /\ procenv["B"] = Nil
    /\ InSelected("A") = FALSE
    /\ lookups = {<<"A">>}
    /\ undefined = <<>>

(***************************************************************************)
(* The drift comparator.  A local resource and a remote detail are taken   *)
(* with the fields Detect reads.  A list of pointers is a sequence whose   *)
(* nil entries are Nil; a list of field-diffs is a sequence, empty for a   *)
(* nil slice.  The keys of a Go map are visited in an order that the       *)
(* language leaves open, so detectTransformation takes the order as an     *)
(* argument.                                                               *)
(***************************************************************************)

Missing == "missing"
Drifted == "drifted"
InSync  == "in_sync"

Diff(kind, name, status, fields) ==
    [Kind |-> kind, Name |-> name, Status |-> status, Fields |-> fields]

FieldDiff(field, localValue, remoteValue) ==
    [Field |-> field, Local |-> localValue, Remote |-> remoteValue]

\* fmt.Sprint of an int
Sprint(n) == IF n = 0 THEN "0" ELSE Digits(n)

\* a faulty variant: a source without differences is reported as in sync
detectSourceReportsInSync(local, remote) ==
    IF remote = Nil THEN Diff("source", local.Name, Missing, <<>>)
    ELSE LET fields ==
                 (IF local.Name # remote.Name
                  THEN <<FieldDiff("name", local.Name, remote.Name)>> ELSE <<>>)
                 \o
                 (IF local.Description # "" /\ local.Description # remote.Description
                  THEN <<FieldDiff("description", local.Description, remote.Description)>>
                  ELSE <<>>)
         IN  IF Len(fields) > 0 THEN Diff("source", local.Name, Drifted, fields)
             ELSE Diff("source", local.Name, InSync, <<>>)

detectSource(local, remote) ==
    IF remote = Nil THEN Diff("source", local.Name, Missing, <<>>)
    ELSE LET fields ==
                 (IF local.Name # remote.Name
                  THEN <<FieldDiff("name", local.Name, remote.Name)>> ELSE <<>>)
                 \o
                 (IF local.Description # "" /\ local.Description # remote.Description
                  THEN <<FieldDiff("description", local.Description, remote.Description)>>
                  ELSE <<>>)
         IN  IF Len(fields) > 0 THEN Diff("source", local.Name, Drifted, fields)
             ELSE Nil

\* a faulty variant: the rate limit is compared although none is declared
detectDestinationComparesUnset(local, remote) ==
    IF remote = Nil THEN Diff("destination", local.Name, Missing, <<>>)
    ELSE LET cfg == remote.Config
             fields ==
                 (IF local.URL # "" /\ local.URL # cfg.URL
                  THEN <<FieldDiff("url", local.URL, cfg.URL)>> ELSE <<>>)
                 \o
                 (IF local.AuthType # "" /\ local.AuthType # cfg.AuthType
                  THEN <<FieldDiff("auth_type", local.AuthType, cfg.AuthType)>>
                  ELSE <<>>)
                 \o
                 (IF local.RateLimit # cfg.RateLimit
                  THEN <<FieldDiff("rate_limit", Sprint(local.RateLimit),
                                   Sprint(cfg.RateLimit))>>
                  ELSE <<>>)
                 \o
                 (IF local.RateLimitPeriod # ""
                     /\ local.RateLimitPeriod # cfg.RateLimitPeriod
                  THEN <<FieldDiff("rate_limit_period", local.RateLimitPeriod,
                                   cfg.RateLimitPeriod)>>
                  ELSE <<>>)
         IN  IF Len(fields) > 0 THEN Diff("destination", local.Name, Drifted, fields)
             ELSE Nil

detectDestination(local, remote) ==
    IF remote = Nil THEN Diff("destination", local.Name, Missing, <<>>)
    ELSE LET cfg == remote.Config
             fields ==
                 (IF local.URL # "" /\ local.URL # cfg.URL
                  THEN <<FieldDiff("url", local.URL, cfg.URL)>> ELSE <<>>)
                 \o
                 (IF local.AuthType # "" /\ local.AuthType # cfg.AuthType
                  THEN <<FieldDiff("auth_type", local.AuthType, cfg.AuthType)>>
                  ELSE <<>>)
                 \o
                 (IF local.RateLimit # 0 /\ local.RateLimit # cfg.RateLimit
                  THEN <<FieldDiff("rate_limit", Sprint(local.RateLimit),
                                   Sprint(cfg.RateLimit))>>
                  ELSE <<>>)
                 \o
                 (IF local.RateLimitPeriod # ""
                     /\ local.RateLimitPeriod # cfg.RateLimitPeriod
                  THEN <<FieldDiff("rate_limit_period", local.RateLimitPeriod,
                                   cfg.RateLimitPeriod)>>
                  ELSE <<>>)
         IN  IF Len(fields) > 0 THEN Diff("destination", local.Name, Drifted, fields)
             ELSE Nil

\* no field of a connection is compared
detectConnection(local, remote) ==
    IF remote = Nil THEN Diff("connection", local.Name, Missing, <<>>)
    ELSE LET fields == <<>>
         IN  IF Len(fields) > 0 THEN Diff("connection", local.Name, Drifted, fields)
             ELSE Nil

\* order is the order in which range local.Env yields the keys
detectTransformation(local, remote, order) ==
    IF remote = Nil THEN Diff("transformation", local.Name, Missing, <<>>)
    ELSE LET EnvDiff(k) ==
                 IF k \notin Keys(remote.Env) \/ remote.Env[k] # local.Env[k]
                 THEN <<FieldDiff("env." \o k, local.Env[k],
                                  IF k \in Keys(remote.Env) THEN remote.Env[k] ELSE "")>>
                 ELSE <<>>
             fields == Concat([n \in 1..Len(order) |-> EnvDiff(order[n])])
         IN  IF Len(fields) > 0 THEN Diff("transformation", local.Name, Drifted, fields)
             ELSE Nil

\* remote.X[i] when i < len(remote.X), nil otherwise (i counts from 1 here)
RemoteAt(list, i) == IF i <= Len(list) THEN list[i] ELSE Nil

\* one loop of Detect: the Diffs of the resources 1..n of a kind, in order,
\* each with the resource it is about
Loop(kind, n, detect(_)) ==
    SelectSeq([i \in 1..n |-> [diff |-> detect(i), kind |-> kind, index |-> i]],
              LAMBDA e : e.diff # Nil)

\* a faulty variant: the transformations are compared before the connections
DetectTransformationsFirst(sources, destinations, transformations, connections, remote, orders) ==
    LET Src(i) == detectSource(sources[i], RemoteAt(remote.Sources, i))
        Dst(i) == detectDestination(destinations[i], RemoteAt(remote.Destinations, i))
        Conn(i) == detectConnection(connections[i], RemoteAt(remote.Connections, i))
        Tr(i) == detectTransformation(transformations[i],
                                      RemoteAt(remote.Transformations, i), orders[i])
    IN  Loop("source", Len(sources), Src)
        \o Loop("destination", Len(destinations), Dst)
        \o Loop("transformation", Len(transformations), Tr)
        \o Loop("connection", Len(connections), Conn)

\* Detect(sources, destinations, transformations, connections, remote); orders
\* gives the key order of each transformation's env map
Detect(sources, destinations, transformations, connections, remote, orders) ==
    LET Src(i) == detectSource(sources[i], RemoteAt(remote.Sources, i))
        Dst(i) == detectDestination(destinations[i], RemoteAt(remote.Destinations, i))
        Conn(i) == detectConnection(connections[i], RemoteAt(remote.Connections, i))
        Tr(i) == detectTransformation(transformations[i],
                                      RemoteAt(remote.Transformations, i), orders[i])
    IN  Loop("source", Len(sources), Src)
        \o Loop("destination", Len(destinations), Dst)
        \o Loop("connection", Len(connections), Conn)
        \o Loop("transformation", Len(transformations), Tr)

MaxResources == 2

Lists(S) == SeqsUpTo(S, MaxResources)

LocalSources == { [Name |-> "s1", Description |-> ""], [Name |-> "s2", Description |-> "a"] }

RemoteSources ==
    { Nil, [Name |-> "s1", Description |-> "b"], [Name |-> "s2", Description |-> "a"],
      [Name |-> "s2", Description |-> "b"] }

LocalDestinations ==
    { [Name |-> "d1", URL |-> "a", AuthType |-> "", RateLimit |-> 100,
       RateLimitPeriod |-> ""],
      [Name |-> "d2", URL |-> "", AuthType |-> "a", RateLimit |-> 0,
       RateLimitPeriod |-> "a"],
      [Name |-> "d3", URL |-> "", AuthType |-> "", RateLimit |-> 0,
       RateLimitPeriod |-> ""] }

RemoteDestinations ==
    { Nil,
      [Config |-> [URL |-> "a", AuthType |-> "a", RateLimit |-> 100,
                   RateLimitPeriod |-> "a"]],
      [Config |-> [URL |-> "b", AuthType |-> "", RateLimit |-> 200,
                   RateLimitPeriod |-> ""]] }

LocalConnections == { [Name |-> "c1"], [Name |-> "c2"] }

RemoteConnections == { Nil, [Name |-> "c1"] }

LocalTransformations ==
    { [Name |-> "t1", Env |-> Nil], [Name |-> "t2", Env |-> Map1("API", "x")],
      [Name |-> "t3", Env |-> Map2("API", "x", "KEY", "y")] }

RemoteTransformations ==
    { Nil, [Env |-> Nil], [Env |-> Map2("API", "x", "KEY", "y")],
      [Env |-> Map1("API", "z")], [Env |-> Map2("API", "z", "KEY", "y")] }

\* the kinds that are not varied: a missing source, a destination and a
\* connection in sync, a drifted transformation
FixedLocals ==
    [sources |-> <<CHOOSE x \in LocalSources : x.Name = "s1">>,
     destinations |-> <<CHOOSE x \in LocalDestinations : x.Name = "d1">>,
     connections |-> <<CHOOSE x \in LocalConnections : x.Name = "c1">>,
     transformations |-> <<CHOOSE x \in LocalTransformations : x.Name = "t2">>]

FixedRemotes ==
    [Sources |-> <<>>,
     Destinations |-> <<CHOOSE x \in RemoteDestinations : x # Nil /\ x.Config.URL = "a">>,
     Connections |-> <<CHOOSE x \in RemoteConnections : x # Nil>>,
     Transformations |-> <<CHOOSE x \in RemoteTransformations :
                              x # Nil /\ x.Env = Map2("API", "z", "KEY", "y")>>]

\* a manifest without resources
NoLocals ==
    [sources |-> <<>>, destinations |-> <<>>, connections |-> <<>>,
     transformations |-> <<>>]

\* a project nothing of which is deployed
NoRemotes ==
    [Sources |-> <<>>, Destinations |-> <<>>, Connections |-> <<>>,
     Transformations |-> <<>>]

\* manifests with MaxResources resources of every kind
ManyLocals ==
    { [sources |-> ss, destinations |-> ds, connections |-> cs, transformations |-> ts] :
        ss \in { x \in Lists(LocalSources) : Len(x) = MaxResources },
        ds \in { x \in Lists(LocalDestinations) : Len(x) = MaxResources /\ x[1] # x[2] },
        cs \in { x \in Lists(LocalConnections) : Len(x) = MaxResources /\ x[1] # x[2] },
        ts \in { x \in Lists(LocalTransformations) : Len(x) = MaxResources /\ x[1] = x[2] } }

\* the inputs of Detect: the resources of one kind and their remote
\* counterparts vary, the other kinds are fixed
DriftInputs ==
    { [l |-> [FixedLocals EXCEPT !.sources = ls],
       r |-> [FixedRemotes EXCEPT !.Sources = rs]] :
        ls \in Lists(LocalSources), rs \in Lists(RemoteSources) }
    \cup
    { [l |-> [FixedLocals EXCEPT !.destinations = ls],
       r |-> [FixedRemotes EXCEPT !.Destinations = rs]] :
        ls \in Lists(LocalDestinations), rs \in Lists(RemoteDestinations) }
    \cup
    { [l |-> [FixedLocals EXCEPT !.connections = ls],
       r |-> [FixedRemotes EXCEPT !.Connections = rs]] :
        ls \in Lists(LocalConnections), rs \in Lists(RemoteConnections) }
    \cup
    { [l |-> [FixedLocals EXCEPT !.transformations = ls],
       r |-> [FixedRemotes EXCEPT !.Transformations = rs]] :
        ls \in Lists(LocalTransformations), rs \in Lists(RemoteTransformations) }
    \cup
    { [l |-> NoLocals, r |-> [FixedRemotes EXCEPT !.Sources = rs]] :
        rs \in Lists(RemoteSources) }
    \cup
    { [l |-> l, r |-> NoRemotes] : l \in ManyLocals }

\* the orders in which the keys of a map can be visited
KeyOrders(m) ==
    { o \in [1..Cardinality(Keys(m)) -> Keys(m)] : Range(o) = Keys(m) }

InitDrift ==
    /\ \E in \in DriftInputs : locals = in.l /\ remotes = in.r
    /\ diffs = <<>>
    /\ origins = <<>>
    /\ detected = "no"
    /\ previous = <<>>
    /\ MergeOff
    /\ LoaderOff
    /\ ResolveOff
    /\ InterpolateOff
    /\ PipelineOff
    /\ RegistryOff
    /\ ParseOff
    /\ DeployOff

\* diffs := drift.Detect(sources, destinations, transformations, connections, remote)
CallDetect ==
    /\ detected = "no"
    /\ \E orders \in [1..Len(locals.transformations) -> UNION { KeyOrders(t.Env) : t \in LocalTransformations }] :
          /\ \A i \in DOMAIN orders : orders[i] \in KeyOrders(locals.transformations[i].Env)
          /\ LET out == Detect(locals.sources, locals.destinations,
                               locals.transformations, locals.connections, remotes,
                               orders)
             IN  /\ diffs' = [n \in 1..Len(out) |-> out[n].diff]
                 /\ origins' = [n \in 1..Len(out) |-> [kind |-> out[n].kind,
                                                       index |-> out[n].index]]
    /\ detected' = "yes"
    /\ UNCHANGED <<locals, remotes, previous>>
    /\ UNCHANGED exceptDrift

\* a second run of the command over the same manifest and the same remote
\* state: Detect is called again with equal arguments
CallDetectAgain ==
    /\ detected = "yes"
    /\ \E orders \in [1..Len(locals.transformations) -> UNION { KeyOrders(t.Env) : t \in LocalTransformations }] :
          /\ \A i \in DOMAIN orders : orders[i] \in KeyOrders(locals.transformations[i].Env)
          /\ LET out == Detect(locals.sources, locals.destinations,
                               locals.transformations, locals.connections, remotes,
                               orders)
             IN  /\ diffs' = [n \in 1..Len(out) |-> out[n].diff]
                 /\ origins' = [n \in 1..Len(out) |-> [kind |-> out[n].kind,
                                                       index |-> out[n].index]]
    /\ previous' = diffs
    /\ detected' = "twice"
    /\ UNCHANGED <<locals, remotes>>
    /\ UNCHANGED exceptDrift

NextDrift == CallDetect \/ CallDetectAgain

SpecDrift == InitDrift /\ [][NextDrift]_vars

\* the local resources of a kind and the remote list aligned with them
LocalsOf(kind) ==
    CASE kind = "source"         -> locals.sources
      [] kind = "destination"    -> locals.destinations
      [] kind = "connection"     -> locals.connections
      [] kind = "transformation" -> locals.transformations

RemotesOf(kind) ==
    CASE kind = "source"         -> remotes.Sources
      [] kind = "destination"    -> remotes.Destinations
      [] kind = "connection"     -> remotes.Connections
      [] kind = "transformation" -> remotes.Transformations

Kinds == {"source", "destination", "connection", "transformation"}

\* every compared field of the local resource matches the remote one
AllMatch(kind, local, remote) ==
    CASE kind = "source" ->
             /\ local.Name = remote.Name
             /\ local.Description = "" \/ local.Description = remote.Description
      [] kind = "destination" ->
             /\ local.URL = "" \/ local.URL = remote.Config.URL
             /\ local.AuthType = "" \/ local.AuthType = remote.Config.AuthType
             /\ local.RateLimit = 0 \/ local.RateLimit = remote.Config.RateLimit
             /\ local.RateLimitPeriod = ""
                    \/ local.RateLimitPeriod = remote.Config.RateLimitPeriod
      [] kind = "connection" -> TRUE
      [] kind = "transformation" ->
             \A k \in Keys(local.Env) :
                 k \in Keys(remote.Env) /\ remote.Env[k] = local.Env[k]

\* C20: a Diff of Detect has status Missing and no field-diffs exactly when
\* the remote counterpart of its resource is absent, and status Drifted with
\* at least one field-diff otherwise; a resource whose compared fields all
\* match its remote counterpart, and a connection whose counterpart exists,
\* has no Diff; no Diff has status in_sync.
DiffStatusMatchesRemote ==
    detected = "yes" =>
        /\ \A n \in 1..Len(diffs) :
               LET d == diffs[n]
                   counterpart == RemoteAt(RemotesOf(origins[n].kind), origins[n].index)
               IN  /\ (d.Status = Missing /\ d.Fields = <<>>) <=> counterpart = Nil
                   /\ counterpart # Nil => d.Status = Drifted /\ d.Fields # <<>>
                   /\ d.Status # InSync
        /\ \A kind \in Kinds : \A i \in 1..Len(LocalsOf(kind)) :
               LET counterpart == RemoteAt(RemotesOf(kind), i)
               IN  (counterpart # Nil /\ AllMatch(kind, LocalsOf(kind)[i], counterpart))
                       => ~\E n \in 1..Len(origins) :
                              origins[n] = [kind |-> kind, index |-> i]

DiffStatusMatchesRemoteWitness ==
    /\ detected = "yes"
    /\ Len(locals.sources) = 2
    /\ \E n \in 1..Len(diffs) : diffs[n].Kind = "source" /\ diffs[n].Status = Missing
    /\ \E n \in 1..Len(diffs) : diffs[n].Kind = "transformation"
                                /\ diffs[n].Status = Drifted
    /\ RemoteAt(remotes.Sources, 1) # Nil
    /\ ~\E n \in 1..Len(origins) : origins[n] = [kind |-> "source", index |-> 1]
    /\ ~\E n \in 1..Len(diffs) : diffs[n].Kind \in {"destination", "connection"}

\* Detect has returned (once or twice)
Detected == detected \in {"yes", "twice"}

\* the condition under which the code may emit field-diff f for a resource
\* whose remote counterpart exists
Justified(kind, local, remote, f) ==
    CASE kind = "destination" ->
             \/ f.Field = "url" /\ local.URL # "" /\ local.URL # remote.Config.URL
             \/ f.Field = "auth_type" /\ local.AuthType # ""
                    /\ local.AuthType # remote.Config.AuthType
             \/ f.Field = "rate_limit" /\ local.RateLimit # 0
                    /\ local.RateLimit # remote.Config.RateLimit
             \/ f.Field = "rate_limit_period" /\ local.RateLimitPeriod # ""
                    /\ local.RateLimitPeriod # remote.Config.RateLimitPeriod
      [] kind = "source" ->
             f.Field = "description" =>
                 local.Description # "" /\ local.Description # remote.Description
      [] kind = "transformation" ->
             \E k \in Keys(local.Env) :
                 /\ f.Field = "env." \o k
                 /\ k \notin Keys(remote.Env) \/ remote.Env[k] # local.Env[k]
      [] kind = "connection" -> TRUE

\* C21: for a local resource whose remote counterpart exists, a field-diff
\* for a destination's url, auth_type, rate_limit or rate_limit_period, or
\* for a source's description, is emitted only if the local value is
\* non-empty (non-zero) and differs from the remote value; a field-diff
\* env.KEY of a transformation is emitted only for a key of the local env map
\* that the remote map lacks or holds with another value; a key present only
\* remotely has no field-diff.
FieldDiffsOnlyForLocalValues ==
    Detected =>
        \A n \in 1..Len(diffs) :
            LET kind == origins[n].kind
                local == LocalsOf(kind)[origins[n].index]
                counterpart == RemoteAt(RemotesOf(kind), origins[n].index)
            IN  counterpart # Nil =>
                    /\ \A j \in 1..Len(diffs[n].Fields) :
                           Justified(kind, local, counterpart, diffs[n].Fields[j])
                    /\ kind = "transformation" =>
                           \A k \in Keys(counterpart.Env) \ Keys(local.Env) :
                               \A j \in 1..Len(diffs[n].Fields) :
                                   diffs[n].Fields[j].Field # "env." \o k

FieldDiffsOnlyForLocalValuesWitness ==
    /\ Detected
    /\ \E n \in 1..Len(diffs) :
           LET local == locals.destinations[origins[n].index]
               counterpart == RemoteAt(remotes.Destinations, origins[n].index)
           IN  /\ origins[n].kind = "destination"
               /\ counterpart # Nil
               /\ local.RateLimit = 0 /\ counterpart.Config.RateLimit # 0
               /\ local.URL = "" /\ counterpart.Config.URL # ""
               /\ Len(diffs[n].Fields) = 2
    /\ \E n \in 1..Len(diffs) :
           LET local == locals.transformations[origins[n].index]
               counterpart == RemoteAt(remotes.Transformations, origins[n].index)
           IN  /\ origins[n].kind = "transformation"
               /\ counterpart # Nil
               /\ Keys(counterpart.Env) \ Keys(local.Env) # {}
               /\ Len(diffs[n].Fields) = 1

\* the place of a kind in the output of Detect
Rank(kind) ==
    CASE kind = "source"         -> 1
      [] kind = "destination"    -> 2
      [] kind = "connection"     -> 3
      [] kind = "transformation" -> 4

\* C22: the list Detect returns has at most one Diff per local resource (so
\* it is empty when there is no local resource, whatever the remote state
\* holds), each Diff bears the kind and name of its resource, and the Diffs
\* are grouped by kind in the order sources, destinations, connections,
\* transformations and, within a kind, are in the order of the local list.
DiffsInLocalOrder ==
    Detected =>
        /\ Len(origins) = Len(diffs)
        /\ \A n \in 1..Len(diffs) :
               /\ origins[n].kind \in Kinds
               /\ origins[n].index \in 1..Len(LocalsOf(origins[n].kind))
               /\ diffs[n].Kind = origins[n].kind
               /\ diffs[n].Name = LocalsOf(origins[n].kind)[origins[n].index].Name
        /\ \A n1, n2 \in 1..Len(diffs) :
               n1 < n2 =>
                   \/ Rank(origins[n1].kind) < Rank(origins[n2].kind)
                   \/ /\ origins[n1].kind = origins[n2].kind
                      /\ origins[n1].index < origins[n2].index
        /\ (\A kind \in Kinds : LocalsOf(kind) = <<>>) => diffs = <<>>

DiffsInLocalOrderWitness ==
    /\ Detected
    /\ Len(diffs) = 4 * MaxResources
    /\ \A kind \in Kinds : Len(LocalsOf(kind)) = MaxResources
    /\ locals.sources[1] # locals.sources[2]

\* C23: two calls of Detect with equal local and remote inputs return equal
\* lists of Diffs, the order of the field-diffs inside each Diff included.
DetectDeterministic ==
    detected = "twice" => diffs = previous

(***************************************************************************)
(* The project registry.  A manifest is taken with the fields AddManifest  *)
(* and Validate read: the names of its resources, the code file of a       *)
(* transformation and the references of a connection.  An error is the     *)
(* format of its message together with the format's arguments.             *)
(***************************************************************************)

\* most calls of AddManifest in one behaviour
MaxAdds == 3

ManifestFiles == {"/p/x/hookdeck.jsonc", "/p/y/hookdeck.jsonc"}

\* filepath.Dir of a manifest file
ManifestDir(filePath) ==
    CASE filePath = "/p/x/hookdeck.jsonc" -> "/p/x"
      [] filePath = "/p/y/hookdeck.jsonc" -> "/p/y"

\* filepath.Join(manifestDir, codeFile) for a clean relative codeFile
JoinCodeFile(manifestDir, codeFile) == manifestDir \o "/" \o codeFile

Named(name) == [Name |-> name]

Transformation(name, codeFile) == [Name |-> name, CodeFile |-> codeFile]

Connection(name, source, destination, transformations) ==
    [Name |-> name, Source |-> source, Destination |-> destination,
     Transformations |-> transformations]

ProjectManifest(sources, destinations, transformations, connections) ==
    [Sources |-> sources, Destinations |-> destinations,
     Transformations |-> transformations, Connections |-> connections]

\* the manifests of a project: one name in three kinds, a connection whose
\* references another file defines, broken references, a name twice in one
\* file, a file without resources
ProjectManifests ==
    { ProjectManifest(<<Named("a")>>, <<Named("a")>>, <<Transformation("a", "h.js")>>,
                      <<>>),
      ProjectManifest(<<Named("a"), Named("b")>>, <<>>, <<>>,
                      <<Connection("c", "a", "a", <<"a">>)>>),
      ProjectManifest(<<>>, <<>>, <<>>,
                      <<Connection("c", "b", "", <<"a", "u">>)>>),
      ProjectManifest(<<Named("a"), Named("a")>>, <<>>, <<Transformation("a", "")>>,
                      <<>>),
      ProjectManifest(<<>>, <<Named("d")>>, <<>>,
                      <<Connection("k", "", "d", <<>>)>>),
      ProjectManifest(<<>>, <<>>, <<>>, <<>>) }

\* fmt.Errorf("duplicate <kind> %q: defined in %s and %s", name, existing, filePath)
Duplicate(kind, name, existing, filePath) ==
    [format |-> "duplicate " \o kind \o " %q: defined in %s and %s",
     args |-> <<name, existing, filePath>>]

\* fmt.Errorf("connection %q references undefined <kind> %q", connection, name)
UndefinedReference(kind, connection, name) ==
    [format |-> "connection %q references undefined " \o kind \o " %q",
     args |-> <<connection, name>>]

\* NewRegistry()
NewRegistry ==
    [Sources |-> EmptyMap, Destinations |-> EmptyMap, Transformations |-> EmptyMap,
     Connections |-> EmptyMap,
     SourceList |-> <<>>, DestinationList |-> <<>>, TransformationList |-> <<>>,
     ConnectionList |-> <<>>,
     TransformationFiles |-> EmptyMap,
     collisionErrors |-> <<>>]

\* a faulty variant: a duplicate takes the place of the first definition
RECURSIVE registerKeepsLast(_, _, _, _, _)
registerKeepsLast(kind, list, filePath, table, errors) ==
    IF list = <<>> THEN [table |-> table, errors |-> errors]
    ELSE LET name == Head(list).Name
         IN  IF name \in DOMAIN table
             THEN registerKeepsLast(kind, Tail(list), filePath,
                           Put(table, name, [FilePath |-> filePath]),
                           Append(errors, Duplicate(kind, name, table[name].FilePath,
                                                    filePath)))
             ELSE registerKeepsLast(kind, Tail(list), filePath,
                           Put(table, name, [FilePath |-> filePath]), errors)

\* one loop of AddManifest over the resources of a kind: the table of the
\* kind and the collision errors after it
RECURSIVE register(_, _, _, _, _)
register(kind, list, filePath, table, errors) ==
    IF list = <<>> THEN [table |-> table, errors |-> errors]
    ELSE LET name == Head(list).Name
         IN  IF name \in DOMAIN table
             THEN register(kind, Tail(list), filePath, table,
                           Append(errors, Duplicate(kind, name, table[name].FilePath,
                                                    filePath)))
             ELSE register(kind, Tail(list), filePath,
                           Put(table, name, [FilePath |-> filePath]), errors)

\* r.TransformationFiles after the loop over the transformations
RECURSIVE codeFiles(_, _, _)
codeFiles(list, manifestDir, table) ==
    IF list = <<>> THEN table
    ELSE codeFiles(Tail(list), manifestDir,
                   IF Head(list).CodeFile # ""
                   THEN Put(table, Head(list).Name,
                            JoinCodeFile(manifestDir, Head(list).CodeFile))
                   ELSE table)

\* r.AddManifest(filePath, m): the registry after the call
AddManifest(r, filePath, m) ==
    LET s == register("source", m.Sources, filePath, r.Sources, r.collisionErrors)
        d == register("destination", m.Destinations, filePath, r.Destinations, s.errors)
        t == register("transformation", m.Transformations, filePath,
                      r.Transformations, d.errors)
        c == register("connection", m.Connections, filePath, r.Connections, t.errors)
    IN  [Sources |-> s.table, Destinations |-> d.table, Transformations |-> t.table,
         Connections |-> c.table,
         SourceList |-> r.SourceList \o m.Sources,
         DestinationList |-> r.DestinationList \o m.Destinations,
         TransformationList |-> r.TransformationList \o m.Transformations,
         ConnectionList |-> r.ConnectionList \o m.Connections,
         TransformationFiles |-> codeFiles(m.Transformations, ManifestDir(filePath),
                                           r.TransformationFiles),
         collisionErrors |-> c.errors]

\* the errors Validate appends for connection c
brokenReferences(r, c) ==
    (IF c.Source # "" /\ c.Source \notin DOMAIN r.Sources
     THEN <<UndefinedReference("source", c.Name, c.Source)>> ELSE <<>>)
    \o
    (IF c.Destination # "" /\ c.Destination \notin DOMAIN r.Destinations
     THEN <<UndefinedReference("destination", c.Name, c.Destination)>> ELSE <<>>)
    \o
    Concat([n \in 1..Len(c.Transformations) |->
               IF c.Transformations[n] \notin DOMAIN r.Transformations
               THEN <<UndefinedReference("transformation", c.Name, c.Transformations[n])>>
               ELSE <<>>])

\* a faulty variant: validation stops at the first error
ValidateStopsAtFirst(r) ==
    LET all == r.collisionErrors
               \o Concat([n \in 1..Len(r.ConnectionList) |->
                              brokenReferences(r, r.ConnectionList[n])])
    IN  IF all = <<>> THEN <<>> ELSE <<Head(all)>>

\* r.Validate()
Validate(r) ==
    r.collisionErrors
    \o Concat([n \in 1..Len(r.ConnectionList) |->
                   brokenReferences(r, r.ConnectionList[n])])

InitRegistry ==
    /\ registry = NewRegistry
    /\ added = <<>>
    /\ errs = <<>>
    /\ project = "adding"
    /\ MergeOff
    /\ LoaderOff
    /\ ResolveOff
    /\ InterpolateOff
    /\ PipelineOff
    /\ DriftOff
    /\ ParseOff
    /\ DeployOff

\* registry.AddManifest(mp, m)
CallAddManifest ==
    /\ project = "adding"
    /\ Len(added) < MaxAdds
    /\ \E filePath \in ManifestFiles, m \in ProjectManifests :
          /\ registry' = AddManifest(registry, filePath, m)
          /\ added' = Append(added, [filePath |-> filePath, m |-> m])
    /\ UNCHANGED <<errs, project>>
    /\ UNCHANGED exceptRegistry

\* if errs := registry.Validate(); len(errs) > 0 { return nil, error }
\* return &Project{...}, nil
CallValidate ==
    /\ project = "adding"
    /\ errs' = Validate(registry)
    /\ project' = IF Len(errs') > 0 THEN "validation errors" ELSE "loaded"
    /\ UNCHANGED <<registry, added>>
    /\ UNCHANGED exceptRegistry

NextRegistry == CallAddManifest \/ CallValidate

SpecRegistry == InitRegistry /\ [][NextRegistry]_vars

\* Validate has been called
Validated == project \in {"validation errors", "loaded"}

\* the resources of a kind in a manifest
ListOf(m, kind) ==
    CASE kind = "source"         -> m.Sources
      [] kind = "destination"    -> m.Destinations
      [] kind = "transformation" -> m.Transformations
      [] kind = "connection"     -> m.Connections

\* the resources of a kind that were added, in the order of their addition,
\* each with the file it came from
Occurrences(kind) ==
    Concat([i \in 1..Len(added) |->
               [j \in 1..Len(ListOf(added[i].m, kind)) |->
                   [name |-> ListOf(added[i].m, kind)[j].Name,
                    file |-> added[i].filePath]]])

\* the names defined for a kind by the added manifests
AllNames(kind) == { Occurrences(kind)[j].name : j \in 1..Len(Occurrences(kind)) }

\* one duplicate error for every occurrence of a name beyond the first
ExpectedDuplicates(kind) ==
    LET occ == Occurrences(kind)
        Earlier(j) == { i \in 1..(j - 1) : occ[i].name = occ[j].name }
    IN  Concat([j \in 1..Len(occ) |->
                   IF Earlier(j) # {}
                   THEN <<Duplicate(kind, occ[j].name, occ[Min(Earlier(j))].file,
                                    occ[j].file)>>
                   ELSE <<>>])

IsDuplicate(e, kind) == e.format = Duplicate(kind, "", "", "").format

IsUndefined(e) ==
    \E kind \in Kinds : e.format = UndefinedReference(kind, "", "").format

DuplicatesOf(kind) == SelectSeq(errs, LAMBDA e : IsDuplicate(e, kind))

\* C24: after any sequence of AddManifest calls, Validate reports for kind K
\* and name N one duplicate error for every occurrence of N among the added
\* resources of kind K beyond the first, naming the first defining file and
\* the file of the occurrence, and no duplicate error for a name that is
\* used at most once in each kind.
DuplicatesPerKind ==
    Validated =>
        /\ \A kind \in Kinds : DuplicatesOf(kind) = ExpectedDuplicates(kind)
        /\ \A name \in UNION { AllNames(kind) : kind \in Kinds } :
               (\A kind \in Kinds :
                   Cardinality({ j \in 1..Len(Occurrences(kind)) :
                                   Occurrences(kind)[j].name = name }) <= 1)
               => ~\E n \in 1..Len(errs) :
                      /\ \E kind \in Kinds : IsDuplicate(errs[n], kind)
                      /\ errs[n].args[1] = name

DuplicatesPerKindWitness ==
    /\ Validated
    /\ Len(DuplicatesOf("source")) = 2
    /\ \E n \in 1..2 : LET e == DuplicatesOf("source")[n]
                        IN  e.args[1] = "a" /\ e.args[2] # e.args[3]
    /\ "a" \in AllNames("destination")
    /\ DuplicatesOf("destination") = <<>>

\* the connections that were added, in the order of their addition
AddedConnections == Concat([i \in 1..Len(added) |-> added[i].m.Connections])

\* the references of a connection: a non-empty source, a non-empty
\* destination, every entry of transformations
ReferencesOf(c) ==
    (IF c.Source # "" THEN <<[kind |-> "source", name |-> c.Source]>> ELSE <<>>)
    \o
    (IF c.Destination # ""
     THEN <<[kind |-> "destination", name |-> c.Destination]>> ELSE <<>>)
    \o
    [n \in 1..Len(c.Transformations) |->
        [kind |-> "transformation", name |-> c.Transformations[n]]]

\* one error for every reference to a name no added manifest defines
ExpectedBroken ==
    Concat([i \in 1..Len(AddedConnections) |->
               LET c == AddedConnections[i]
                   refs == ReferencesOf(c)
               IN  Concat([n \in 1..Len(refs) |->
                              IF refs[n].name \notin AllNames(refs[n].kind)
                              THEN <<UndefinedReference(refs[n].kind, c.Name,
                                                        refs[n].name)>>
                              ELSE <<>>])])

\* C25: after any sequence of AddManifest calls, Validate returns in one
\* list every duplicate error and one error for every connection reference
\* whose name no added manifest registers under the kind, whatever the order
\* of the additions; the list is empty exactly when there is no duplicate and
\* no broken reference, and LoadProject fails exactly when it is not empty.
ValidateCollectsAll ==
    Validated =>
        /\ \A kind \in Kinds :
               SelectSeq(errs, LAMBDA e : IsDuplicate(e, kind)) = ExpectedDuplicates(kind)
        /\ SelectSeq(errs, IsUndefined) = ExpectedBroken
        /\ \A n \in 1..Len(errs) :
               IsUndefined(errs[n]) \/ \E kind \in Kinds : IsDuplicate(errs[n], kind)
        /\ errs = <<>> <=>
               /\ \A kind \in Kinds : ExpectedDuplicates(kind) = <<>>
               /\ ExpectedBroken = <<>>
        /\ project = "validation errors" <=> errs # <<>>
        /\ project = "loaded" <=> errs = <<>>

ValidateCollectsAllWitness ==
    /\ Validated
    /\ \E i, j \in 1..Len(added) :
           /\ i < j
           /\ \E n \in 1..Len(added[i].m.Connections) :
                  LET c == added[i].m.Connections[n]
                  IN  /\ c.Source # ""
                      /\ \A k \in 1..i :
                             \A x \in 1..Len(added[k].m.Sources) :
                                 added[k].m.Sources[x].Name # c.Source
                      /\ \E x \in 1..Len(added[j].m.Sources) :
                             added[j].m.Sources[x].Name = c.Source
                      /\ UndefinedReference("source", c.Name, c.Source)
                             \notin Range(errs)
    /\ \E kind \in Kinds : ExpectedDuplicates(kind) # <<>>
    /\ Len(ExpectedBroken) >= 2
    /\ project = "validation errors"

(***************************************************************************)
(* LoadFile on one file, for the backward-compatibility step: the file     *)
(* holds a transformation and overlays whose env and env_vars vary.        *)
(***************************************************************************)

\* the values of env and of env_vars in a file: absent, {}, and maps that
\* share a key, with equal and with different values
FileEnvMaps ==
    { Nil, EmptyMap, Map1("API", "x"), Map1("API", "old"), Map1("KEY", "z"),
      Map2("API", "old", "KEY", "z") }

FileTransformations ==
    {Nil} \cup { [ZeroTransformation EXCEPT !.Name = "tr", !.Env = e, !.EnvVars = v] :
                    e \in FileEnvMaps, v \in FileEnvMaps }

\* the env block of a file: absent, a null overlay, an overlay with a
\* transformation, two overlays
FileOverlays ==
    {Nil, Map1("staging", Nil)}
    \cup { Map1("staging", [ZeroEnvOverride EXCEPT !.Transformation = t]) :
             t \in FileTransformations }
    \cup { Map2("staging", [ZeroEnvOverride EXCEPT !.Transformation = t],
                "production", [ZeroEnvOverride EXCEPT !.Profile = "prod",
                                                      !.Transformation = t]) :
             t \in { x \in FileTransformations : x # Nil /\ x.Env = Map1("API", "x") } }

FileContents ==
    {Nil, Malformed}
    \cup { [ZeroManifest EXCEPT !.Transformation = t, !.Env = e] :
             t \in FileTransformations, e \in FileOverlays }

\* the file system that holds raw under path a.jsonc and nothing else
OneFile(data) == [q \in AbsPaths |-> IF q = "/p/a.jsonc" THEN data ELSE Nil]

InitParse ==
    /\ raw \in FileContents
    /\ loaded = Nil
    /\ MergeOff
    /\ LoaderOff
    /\ ResolveOff
    /\ InterpolateOff
    /\ PipelineOff
    /\ DriftOff
    /\ RegistryOff
    /\ DeployOff

\* m, err := manifest.LoadFile(path)
CallLoadFile ==
    /\ loaded = Nil
    /\ loaded' = LoadFile(OneFile(raw), "a.jsonc")
    /\ UNCHANGED raw
    /\ UNCHANGED exceptParse

NextParse == CallLoadFile

SpecParse == InitParse /\ [][NextParse]_vars

\* the transformation after is the transformation before with env_vars
\* folded into env
Folded(before, after) ==
    IF before = Nil THEN after = Nil
    ELSE /\ after # Nil
         /\ Keys(before.Env) \cup Keys(before.EnvVars) \subseteq Keys(after.Env)
         /\ \A k \in Keys(before.Env) : after.Env[k] = before.Env[k]
         /\ \A k \in Keys(before.EnvVars) \ Keys(before.Env) :
                after.Env[k] = before.EnvVars[k]
         /\ Keys(after.EnvVars) = {}

\* C26: after LoadFile succeeds, the env map of the top-level transformation
\* and of the transformation of every environment overlay contains every key
\* of the file's env and of its env_vars, a key of both holds the value from
\* env, a key of env_vars alone holds the env_vars value, and env_vars
\* itself is empty.
EnvVarsFoldedIntoEnv ==
    (loaded # Nil /\ loaded.err = "") =>
        /\ Folded(raw.Transformation, loaded.m.Transformation)
        /\ Keys(loaded.m.Env) = Keys(raw.Env)
        /\ \A e \in Keys(raw.Env) :
               IF raw.Env[e] = Nil THEN loaded.m.Env[e] = Nil
               ELSE /\ loaded.m.Env[e] # Nil
                    /\ Folded(raw.Env[e].Transformation, loaded.m.Env[e].Transformation)

EnvVarsFoldedIntoEnvWitness ==
    /\ loaded # Nil
    /\ loaded.err = ""
    /\ raw.Transformation # Nil
    /\ raw.Transformation.Env = Map1("API", "x")
    /\ raw.Transformation.EnvVars = Map2("API", "old", "KEY", "z")
    /\ loaded.m.Transformation.Env = Map2("API", "x", "KEY", "z")
    /\ "staging" \in Keys(raw.Env)
    /\ raw.Env["staging"] # Nil
    /\ raw.Env["staging"].Transformation # Nil
    /\ raw.Env["staging"].Transformation.Env = Nil
    /\ raw.Env["staging"].Transformation.EnvVars = Map1("API", "old")
    /\ loaded.m.Env["staging"].Transformation.Env = Map1("API", "old")

(***************************************************************************)
(* The deploy orchestrator.  Deploy is followed loop by loop: one step is  *)
(* one iteration of one of its four loops, with the call it makes on the   *)
(* client.  A call succeeds or fails as the client decides.  A resource is *)
(* taken with the fields the request builders read for names and IDs.      *)
(***************************************************************************)

\* most resources of one kind in a DeployInput
MaxItems == 2

\* the resources of a DeployInput: the second transformation has no code
\* file; connection i names source i, destination i and transformation i
DeploySource(i) == [Name |-> "s" \o ToString(i)]

DeployTransformation(i) ==
    [Name |-> "t" \o ToString(i), CodeFile |-> IF i = 2 THEN "" ELSE "h.js"]

DeployDestination(i) == [Name |-> "d" \o ToString(i)]

DeployConnection(i) ==
    [Name |-> IF i = 2 THEN "" ELSE "c" \o ToString(i),
     Source |-> "s" \o ToString(i), Destination |-> "d" \o ToString(i),
     Transformations |-> <<"t" \o ToString(i)>>]

DeployInputs ==
    { [Sources |-> [i \in 1..ks |-> DeploySource(i)],
       Transformations |-> [i \in 1..kt |-> DeployTransformation(i)],
       Destinations |-> [i \in 1..kd |-> DeployDestination(i)],
       Connections |-> [i \in 1..kc |-> DeployConnection(i)]] :
        ks \in 0..MaxItems, kt \in 0..MaxItems, kd \in 0..MaxItems, kc \in 0..MaxItems }

\* the loops of Deploy, in the order of the code
Loops == <<"Sources", "Transformations", "Destinations", "Connections">>

\* the slice a loop ranges over
Ranged(in, loop) ==
    CASE loop = 1 -> in.Sources
      [] loop = 2 -> in.Transformations
      [] loop = 3 -> in.Destinations
      [] loop = 4 -> in.Connections

\* where control is once element i of a loop is asked for: in that loop if
\* it has such an element, else at the first element of the next loop that
\* has one, else (loop 5) at the final return
RECURSIVE Position(_, _, _)
Position(in, loop, i) ==
    IF loop > Len(Loops) THEN [loop |-> loop, i |-> 1]
    ELSE IF i <= Len(Ranged(in, loop)) THEN [loop |-> loop, i |-> i]
    ELSE Position(in, loop + 1, 1)

Entered == [loop |-> 0, i |-> 1]

Returned == [loop |-> 6, i |-> 1]

\* the ID the service gives a resource
RemoteID(kind, name) == kind \o "_" \o name

\* what a call on the client returns: a result or an error
Upserted(kind, name) == [err |-> "", ID |-> RemoteID(kind, name), Name |-> name]

APIError == [err |-> "API error", ID |-> "", Name |-> ""]

Answers(kind, name) == { Upserted(kind, name), APIError }

\* the return values of Deploy
DeployFailed(what, name, err) == [err |-> what, name |-> name, cause |-> err, result |-> Nil]

DeployDone(r) == [err |-> "", name |-> "", cause |-> "", result |-> r]

ResourceResult(name, id, action) == [Name |-> name, ID |-> id, Action |-> action]

\* the names and IDs of buildConnectionRequest: an ID of an earlier upsert
\* where there is one, the name otherwise
buildConnectionRequest(conn, sourceID, destinationID, transformationIDs) ==
    [Name |-> IF conn.Name # "" THEN Set(conn.Name) ELSE Nil,
     SourceID |-> IF sourceID # "" THEN Set(sourceID) ELSE Nil,
     Source |-> IF sourceID = "" /\ conn.Source # "" THEN Set(conn.Source) ELSE Nil,
     DestinationID |-> IF destinationID # "" THEN Set(destinationID) ELSE Nil,
     Destination |-> IF destinationID = "" /\ conn.Destination # ""
                     THEN Set(conn.Destination) ELSE Nil,
     Rules |-> [n \in 1..Len(conn.Transformations) |->
                   [type |-> "transform", name |-> conn.Transformations[n],
                    transformation_id |->
                        IF conn.Transformations[n] \in DOMAIN transformationIDs
                        THEN Set(transformationIDs[conn.Transformations[n]])
                        ELSE Nil]]]

\* sourceIDs[conn.Source]: the zero value for a missing key
Lookup(m, k) == IF k \in DOMAIN m THEN m[k] ELSE ""

Call(op, req, answer) == [op |-> op, req |-> req, answer |-> answer]

InitDeploy ==
    /\ input \in DeployInputs
    /\ opts \in [DryRun : BOOLEAN]
    /\ client \in {"nil", "client"}
    /\ at = Entered
    /\ ids = Nil
    /\ issued = <<>>
    /\ partial = Nil
    /\ deployed = Nil
    /\ MergeOff
    /\ LoaderOff
    /\ ResolveOff
    /\ InterpolateOff
    /\ PipelineOff
    /\ DriftOff
    /\ RegistryOff
    /\ ParseOff

\* the entry of Deploy: the client check and the empty result and ID maps
DeployEnter ==
    /\ at = Entered
    /\ IF ~opts.DryRun /\ client = "nil"
       THEN /\ deployed' = DeployFailed("client must not be nil in live mode", "", "")
            /\ at' = Returned
            /\ UNCHANGED <<ids, partial>>
       ELSE /\ partial' = [Sources |-> <<>>, Transformations |-> <<>>,
                           Destinations |-> <<>>, Connections |-> <<>>]
            /\ ids' = [sourceIDs |-> EmptyMap, destinationIDs |-> EmptyMap,
                       transformationIDs |-> EmptyMap]
            /\ at' = Position(input, 1, 1)
            /\ UNCHANGED deployed
    /\ UNCHANGED <<input, opts, client, issued>>
    /\ UNCHANGED exceptDeploy

\* one iteration of the loop over input.Sources
UpsertSources ==
    /\ at.loop = 1
    /\ LET src == input.Sources[at.i] IN
       IF opts.DryRun
       THEN /\ partial' = [partial EXCEPT !.Sources =
                               Append(@, ResourceResult(src.Name, "", "would upsert"))]
            /\ at' = Position(input, 1, at.i + 1)
            /\ UNCHANGED <<ids, issued, deployed>>
       ELSE \E res \in Answers("src", src.Name) :
               /\ issued' = Append(issued, Call("UpsertSource", [Name |-> src.Name], res))
               /\ IF res.err # ""
                  THEN /\ deployed' = DeployFailed("upserting source", src.Name, res.err)
                       /\ at' = Returned
                       /\ UNCHANGED <<ids, partial>>
                  ELSE /\ ids' = [ids EXCEPT !.sourceIDs = Put(@, src.Name, res.ID)]
                       /\ partial' = [partial EXCEPT !.Sources =
                                          Append(@, ResourceResult(res.Name, res.ID,
                                                                   "upserted"))]
                       /\ at' = Position(input, 1, at.i + 1)
                       /\ UNCHANGED deployed
    /\ UNCHANGED <<input, opts, client>>
    /\ UNCHANGED exceptDeploy

\* one iteration of the loop over input.Transformations; resolveCode fails
\* without a code file or when the file cannot be read
UpsertTransformations ==
    /\ at.loop = 2
    /\ LET tr == input.Transformations[at.i] IN
       IF opts.DryRun
       THEN /\ partial' = [partial EXCEPT !.Transformations =
                               Append(@, ResourceResult(tr.Name, "", "would upsert"))]
            /\ at' = Position(input, 2, at.i + 1)
            /\ UNCHANGED <<ids, issued, deployed>>
       ELSE \E readable \in BOOLEAN :
               IF tr.CodeFile = "" \/ ~readable
               THEN /\ deployed' = DeployFailed("resolving transformation code for",
                                                tr.Name,
                                                IF tr.CodeFile = ""
                                                THEN "code_file is required"
                                                ELSE "reading code file")
                    /\ at' = Returned
                    /\ UNCHANGED <<ids, issued, partial>>
               ELSE \E res \in Answers("trs", tr.Name) :
                       /\ issued' = Append(issued,
                                           Call("UpsertTransformation",
                                                [Name |-> tr.Name, Code |-> "code"], res))
                       /\ IF res.err # ""
                          THEN /\ deployed' = DeployFailed("upserting transformation",
                                                           tr.Name, res.err)
                               /\ at' = Returned
                               /\ UNCHANGED <<ids, partial>>
                          ELSE /\ ids' = [ids EXCEPT !.transformationIDs =
                                                  Put(@, tr.Name, res.ID)]
                               /\ partial' = [partial EXCEPT !.Transformations =
                                                  Append(@, ResourceResult(res.Name, res.ID,
                                                                           "upserted"))]
                               /\ at' = Position(input, 2, at.i + 1)
                               /\ UNCHANGED deployed
    /\ UNCHANGED <<input, opts, client>>
    /\ UNCHANGED exceptDeploy

\* a faulty variant: the run goes on after a destination upsert has failed
UpsertDestinationsIgnoresError ==
    /\ at.loop = 3
    /\ LET dst == input.Destinations[at.i] IN
       IF opts.DryRun
       THEN /\ partial' = [partial EXCEPT !.Destinations =
                               Append(@, ResourceResult(dst.Name, "", "would upsert"))]
            /\ at' = Position(input, 3, at.i + 1)
            /\ UNCHANGED <<ids, issued, deployed>>
       ELSE \E res \in Answers("des", dst.Name) :
               /\ issued' = Append(issued,
                                   Call("UpsertDestination", [Name |-> dst.Name], res))
               /\ ids' = [ids EXCEPT !.destinationIDs = Put(@, dst.Name, res.ID)]
               /\ partial' = [partial EXCEPT !.Destinations =
                                  Append(@, ResourceResult(res.Name, res.ID, "upserted"))]
               /\ at' = Position(input, 3, at.i + 1)
               /\ UNCHANGED deployed
    /\ UNCHANGED <<input, opts, client>>
    /\ UNCHANGED exceptDeploy

\* one iteration of the loop over input.Destinations
UpsertDestinations ==
    /\ at.loop = 3
    /\ LET dst == input.Destinations[at.i] IN
       IF opts.DryRun
       THEN /\ partial' = [partial EXCEPT !.Destinations =
                               Append(@, ResourceResult(dst.Name, "", "would upsert"))]
            /\ at' = Position(input, 3, at.i + 1)
            /\ UNCHANGED <<ids, issued, deployed>>
       ELSE \E res \in Answers("des", dst.Name) :
               /\ issued' = Append(issued,
                                   Call("UpsertDestination", [Name |-> dst.Name], res))
               /\ IF res.err # ""
                  THEN /\ deployed' = DeployFailed("upserting destination", dst.Name,
                                                   res.err)
                       /\ at' = Returned
                       /\ UNCHANGED <<ids, partial>>
                  ELSE /\ ids' = [ids EXCEPT !.destinationIDs = Put(@, dst.Name, res.ID)]
                       /\ partial' = [partial EXCEPT !.Destinations =
                                          Append(@, ResourceResult(res.Name, res.ID,
                                                                   "upserted"))]
                       /\ at' = Position(input, 3, at.i + 1)
                       /\ UNCHANGED deployed
    /\ UNCHANGED <<input, opts, client>>
    /\ UNCHANGED exceptDeploy

\* one iteration of the loop over input.Connections
UpsertConnections ==
    /\ at.loop = 4
    /\ LET conn == input.Connections[at.i] IN
       IF opts.DryRun
       THEN /\ partial' = [partial EXCEPT !.Connections =
                               Append(@, ResourceResult(conn.Name, "", "would upsert"))]
            /\ at' = Position(input, 4, at.i + 1)
            /\ UNCHANGED <<issued, deployed>>
       ELSE LET sourceID == Lookup(ids.sourceIDs, conn.Source)
                destinationID == Lookup(ids.destinationIDs, conn.Destination)
                req == buildConnectionRequest(conn, sourceID, destinationID,
                                              ids.transformationIDs)
            IN  \E res \in Answers("con", conn.Name) :
                   /\ issued' = Append(issued, Call("UpsertConnection", req, res))
                   /\ IF res.err # ""
                      THEN /\ deployed' = DeployFailed("upserting connection", conn.Name,
                                                       res.err)
                           /\ at' = Returned
                           /\ UNCHANGED partial
                      ELSE /\ partial' = [partial EXCEPT !.Connections =
                                              Append(@, ResourceResult(res.Name, res.ID,
                                                                       "upserted"))]
                           /\ at' = Position(input, 4, at.i + 1)
                           /\ UNCHANGED deployed
    /\ UNCHANGED <<input, opts, client, ids>>
    /\ UNCHANGED exceptDeploy

\* return result, nil
DeployReturn ==
    /\ at.loop = 5
    /\ deployed' = DeployDone(partial)
    /\ at' = Returned
    /\ UNCHANGED <<input, opts, client, ids, issued, partial>>
    /\ UNCHANGED exceptDeploy

NextDeploy ==
    \/ DeployEnter
    \/ UpsertSources
    \/ UpsertTransformations
    \/ UpsertDestinations
    \/ UpsertConnections
    \/ DeployReturn

SpecDeploy == InitDeploy /\ [][NextDeploy]_vars

\* the upserts of a run in which every call succeeds: operation and name
Planned ==
    [i \in 1..Len(input.Sources) |->
        [op |-> "UpsertSource", name |-> input.Sources[i].Name]]
    \o [i \in 1..Len(input.Transformations) |->
           [op |-> "UpsertTransformation", name |-> input.Transformations[i].Name]]
    \o [i \in 1..Len(input.Destinations) |->
           [op |-> "UpsertDestination", name |-> input.Destinations[i].Name]]
    \o [i \in 1..Len(input.Connections) |->
           [op |-> "UpsertConnection", name |-> input.Connections[i].Name]]

\* the name a call was made for
CalledFor(call) ==
    IF call.op = "UpsertConnection"
    THEN IF call.req.Name = Nil THEN "" ELSE call.req.Name.val
    ELSE call.req.Name

\* C27: in live mode the upserts are issued in the order all sources, all
\* transformations, all destinations, all connections, each kind in input
\* order; no call is issued after a call that failed, and Deploy then returns
\* the error; a connection upsert is issued only after the upsert of every
\* source, transformation and destination of the input has succeeded; in
\* dry-run mode, and with a nil client in live mode, no call is issued.
UpsertsInDependencyOrder ==
    /\ (opts.DryRun \/ client = "nil") => issued = <<>>
    /\ Len(issued) <= Len(Planned)
    /\ \A n \in 1..Len(issued) :
           /\ issued[n].op = Planned[n].op
           /\ CalledFor(issued[n]) = Planned[n].name
           /\ n < Len(issued) => issued[n].answer.err = ""
           /\ issued[n].answer.err # "" => at = Returned /\ deployed.err # ""
           /\ issued[n].op = "UpsertConnection" =>
                  /\ n > Len(input.Sources) + Len(input.Transformations)
                            + Len(input.Destinations)
                  /\ \A k \in 1..(n - 1) : issued[k].answer.err = ""
    /\ (deployed # Nil /\ deployed.err = "" /\ ~opts.DryRun) =>
           Len(issued) = Len(Planned)

UpsertsInDependencyOrderWitness ==
    /\ ~opts.DryRun
    /\ client = "client"
    /\ deployed # Nil
    /\ deployed.err = ""
    /\ Len(input.Sources) = MaxItems
    /\ Len(input.Transformations) = 1
    /\ Len(input.Destinations) = MaxItems
    /\ Len(input.Connections) = MaxItems
    /\ Len(issued) = 3 * MaxItems + 1
    /\ issued[Len(issued)].op = "UpsertConnection"
    /\ issued[Len(issued)].req.SourceID # Nil
    /\ issued[Len(issued)].req.Name = Nil

(***************************************************************************)
(* Termination of the loader.  A call that has started runs on: each of    *)
(* its steps is taken once it is enabled.                                  *)
(***************************************************************************)

FairSpec == Spec /\ WF_vars(Enter) /\ WF_vars(Return) /\ WF_vars(Finish)

\* C28: every top-level call of LoadWithInheritance returns, with a manifest
\* or with an error, and loads no manifest path more than once on the way.
LoadTerminates ==
    /\ [](\A i, j \in 1..Len(loads) : i # j => loads[i] # loads[j])
    /\ \A p \in CallArgs :
           (pc = "enter" /\ top = p /\ stack = <<>>)
               ~> (pc = "idle" /\ last # Nil /\ last.path = p
                   /\ (last.out.err = "" <=> last.out.m # Nil))

LoadTerminatesWitness ==
    /\ Finished
    /\ Len(loads) = 3
    /\ Revisits(Abs(last.path)) # {}
    /\ last.out.err = "circular extends detected"

====
